---------------------------- MODULE Spec2Model ----------------------------
(***************************************************************************)
(* Pronunex pronunciation assessment: the scorer (nlp_core/scorer.py) and  *)
(* the assessment pipeline (apps/practice/services.py).                    *)
(*                                                                         *)
(* Numbers.  A similarity is a float in [0,1].  It is kept here as the     *)
(* integer floor(similarity * Scale) with Scale = 2000, half a thousandth  *)
(* per unit.  With T * Scale an integer, t < T iff floor(t*Scale) < T*Scale*)
(* and round(t, 3) = floor((floor(t*Scale) + 1) / 2) thousandths, so the   *)
(* comparisons with the thresholds and the rounding to 3 decimals of the   *)
(* code are exact on these integers.                                       *)
(*                                                                         *)
(* Vectors.  An embedding is [kind, x]: kind "num" with integer            *)
(* components x, "nan" (some component is NaN), "inf" (some component is   *)
(* infinite, none NaN) or "none" (Python None).                            *)
(***************************************************************************)
EXTENDS Integers, Sequences, FiniteSets

VARIABLES
    \* calculate_cosine_similarity, called on its own
    cpc, vec1, vec2, cos_result,
    \* the scoring stage: arguments of _calculate_scores and what it returned
    spc, user_embeddings, reference_embeddings, phonemes, threshold,
    scores, scores_again, direct_scores,
    \* process_attempt: settings, the sentence, and where the attempt stands
    pc, dev_mode_assessment, nlp_available, sentence, asr_result,
    user_timestamps, reference_source, calls, result, raised,
    \* what the text-generation service did in each of its two calls, and the
    \* report of detect_mistakes; stage_log lists the stages in the order
    \* in which they were entered
    llm, mistake_report, stage_log,
    \* the stages whose model call failed in this attempt: the model could
    \* not be loaded, or its inference raised
    failed_calls,
    \* compute_phoneme_embeddings, called on its own
    epc, timestamps, num_frames, full_embeddings, model_runs, phoneme_embeddings,
    \* validate_speech, called on its own; asr_decoded is what the ASR model
    \* makes of the audio file, also for an attempt put through process_attempt
    apc, asr_decoded, asr_expected_text, asr_threshold, match_threshold,
    asr_transcribed, validation,
    \* the model loaders called from several threads: the module globals of
    \* each loader, and each thread's position and returned pair
    handles, threads, built, evaled, reassigned,
    \* _get_reference_embeddings called by several requests for one sentence:
    \* the sentence's row, and each request's instance and position
    db_reference_embeddings, db_initial, audio_exists, callers,
    \* get_phoneme_timestamps, called on its own: the ids the model predicts
    \* per frame, the expected phonemes and the windows returned
    alpc, al_pred_ids, al_expected, al_result,
    \* practice sessions: the clock, the rows of the sessions and of their
    \* attempts, and the requests being served
    clock, session_rows, attempt_rows, requests

cosVars == <<cpc, vec1, vec2, cos_result>>
scoreVars == <<spc, user_embeddings, reference_embeddings, phonemes, threshold,
               scores, scores_again, direct_scores>>
pipeVars == <<pc, dev_mode_assessment, nlp_available, sentence, asr_result,
              user_timestamps, reference_source, calls, result, raised,
              llm, mistake_report, stage_log, failed_calls>>
sliceVars == <<epc, timestamps, num_frames, full_embeddings, model_runs,
               phoneme_embeddings>>
\* The variables of the functions that are called on their own
asrVars == <<apc, asr_decoded, asr_expected_text, asr_threshold, match_threshold,
             asr_transcribed, validation>>
loadVars == <<handles, threads, built, evaled, reassigned>>
cacheVars == <<db_reference_embeddings, db_initial, audio_exists, callers>>
alignVars == <<alpc, al_pred_ids, al_expected, al_result>>
sessVars == <<clock, session_rows, attempt_rows, requests>>
unitVars == <<sliceVars, asrVars, loadVars, cacheVars, alignVars, sessVars>>
vars == <<cosVars, scoreVars, pipeVars, unitVars>>

---------------------------------------------------------------------------
(* Fixed point *)

Scale == 2 * 1000

\* p/q of 1.0 in score units (q divides Scale for every use below)
Frac(p, q) == (p * Scale) \div q

Min2(a, b) == IF a <= b THEN a ELSE b
Max2(a, b) == IF a >= b THEN a ELSE b

\* round(x, 3): to the nearest thousandth (two units), kept in score units
Round3(x) == ((x + 1) \div 2) * 2

RECURSIVE IsqrtIn(_, _, _)
IsqrtIn(n, lo, hi) ==
    IF lo >= hi THEN lo
    ELSE LET mid == (lo + hi + 1) \div 2
         IN  IF mid * mid <= n THEN IsqrtIn(n, mid, hi) ELSE IsqrtIn(n, lo, mid - 1)

\* floor(sqrt(n)) for 0 <= n <= Scale^2
Isqrt(n) == IsqrtIn(n, 0, Scale)

---------------------------------------------------------------------------
(* Vectors *)

VNum(x) == [kind |-> "num", x |-> x]
VNone == [kind |-> "none", x |-> <<>>]
VNaN == [kind |-> "nan", x |-> <<0, 0>>]
VInf == [kind |-> "inf", x |-> <<0, 0>>]
Zero == VNum(<<0, 0>>)

RECURSIVE DotTo(_, _, _)
DotTo(u, v, n) == IF n = 0 THEN 0 ELSE DotTo(u, v, n - 1) + u[n] * v[n]

Dot(u, v) == DotTo(u, v, Len(u))

\* np.linalg.norm(v) ** 2
NormSq(u) == Dot(u, u)

\* np.all(emb == 0): a NaN or infinite component is not 0
IsZeroVector(e) == e.kind = "num" /\ \A i \in 1..Len(e.x) : e.x[i] = 0

\* np.any(np.isnan(emb))
HasNaN(e) == e.kind = "nan"

\* np.any(np.isinf(emb))
HasInf(e) == e.kind = "inf"

\* A Python call's outcome: the value returned, or the exception raised
Returned(v) == [exc |-> "none", val |-> v]
Raised(e) == [exc |-> e, val |-> 0]

\* scipy.spatial.distance.cosine(u, v) = 1 - u.v / (|u| |v|), for non-zero
\* numeric u and v; vectors of different lengths raise ValueError
cosine(u, v) ==
    IF Len(u) /= Len(v) THEN Raised("ValueError")
    ELSE LET d == Dot(u, v)
             m == NormSq(u) * NormSq(v)
             mag == Isqrt((d * d * Scale * Scale) \div m)
         IN  Returned(Scale - (IF d >= 0 THEN mag ELSE 0 - mag))

\* max(0.0, min(1.0, similarity))
ClampMissingFloor(similarity) == Min2(Scale, similarity)
Clamp(similarity) == Max2(0, Min2(Scale, similarity))

calculate_cosine_similarity(v1, v2) ==
    IF v1.kind = "none" \/ v2.kind = "none" THEN Returned(0)
    ELSE IF HasNaN(v1) \/ HasNaN(v2) THEN Returned(0)
    ELSE IF HasInf(v1) \/ HasInf(v2) THEN Returned(0)
    ELSE IF NormSq(v1.x) = 0 \/ NormSq(v2.x) = 0 THEN Returned(0)
    ELSE LET distance == cosine(v1.x, v2.x)
         IN  IF distance.exc /= "none" THEN Returned(0)
             ELSE Returned(Clamp(Scale - distance.val))

---------------------------------------------------------------------------
(* scorer.py: calculate_phoneme_scores *)

\* settings.SCORING_CONFIG.get('WEAK_PHONEME_THRESHOLD', 0.7): the default
DefaultWeakThreshold == Frac(7, 10)

\* The thresholds a deployment may configure
WeakThresholds == {DefaultWeakThreshold, Frac(8, 10)}

UnscorableMessage(reason) ==
    CASE reason = "embedding_count_mismatch" ->
            "Audio alignment produced different number of segments than expected."
      [] reason = "embedding_quality_poor" ->
            "Could not extract clear speech features from the audio."
      [] reason = "nan_embeddings" -> "Audio processing produced invalid results."
      [] reason = "all_scores_zero" -> "Could not compare pronunciation to reference."
      [] OTHER -> "Could not accurately score this attempt."

UnscorableSuggestion(reason) ==
    CASE reason = "embedding_count_mismatch" ->
            "Try speaking the complete sentence more evenly."
      [] reason = "embedding_quality_poor" ->
            "Speak closer to the microphone in a quiet environment."
      [] reason = "nan_embeddings" -> "Try recording again with stable audio."
      [] reason = "all_scores_zero" -> "Speak more clearly and at a moderate pace."
      [] OTHER -> "Please speak more clearly and try again."

\* What the scoring functions return: a list of score entries, or the
\* 'unscorable' dict
ScoreList(entries) ==
    [status |-> "scores", reason |-> "", message |-> "", suggestion |-> "",
     entries |-> entries]

generate_unscorable_result(reason) ==
    [status |-> "unscorable", reason |-> reason,
     message |-> UnscorableMessage(reason),
     suggestion |-> UnscorableSuggestion(reason), entries |-> <<>>]

NotScored == [status |-> "not_called", reason |-> "", message |-> "",
              suggestion |-> "", entries |-> <<>>]

\* zero_count and nan_count
ZeroCount(user) == Cardinality({i \in 1..Len(user) : IsZeroVector(user[i])})
NaNCount(user) == Cardinality({i \in 1..Len(user) : HasNaN(user[i])})

\* {'phoneme', 'score': round(similarity, 3), 'is_weak': similarity < threshold}
\* sim is the value before rounding, from which both were taken.  The timing
\* fields copied from the timestamps (start, end, word, position) are left out.
WeakAtThreshold(similarity, thr) == similarity <= thr
IsWeak(similarity, thr) == similarity < thr

ScoreEntry(phoneme, similarity, thr) ==
    [phoneme |-> phoneme, score |-> Round3(similarity),
     is_weak |-> IsWeak(similarity, thr), sim |-> similarity]

\* The similarity of pair i: calculate_cosine_similarity, 0.0 if it raises
PairSimilarity(user, ref, i) ==
    LET r == calculate_cosine_similarity(user[i], ref[i])
    IN  IF r.exc = "none" THEN r.val ELSE 0

ScoredPairs(user, ref, phons, thr) ==
    LET min_len == Min2(Len(user), Min2(Len(ref), Len(phons)))
        entries == [i \in 1..min_len |->
                       ScoreEntry(phons[i], PairSimilarity(user, ref, i), thr)]
    IN  IF min_len > 0 /\ \A i \in 1..min_len : entries[i].score = 0
        THEN generate_unscorable_result("all_scores_zero")
        ELSE ScoreList(entries)

calculate_phoneme_scores_no_nan_check(user, ref, phons, thr) ==
    IF Len(user) /= Len(ref)
    THEN generate_unscorable_result("embedding_count_mismatch")
    ELSE IF 2 * ZeroCount(user) > Len(user)
    THEN generate_unscorable_result("embedding_quality_poor")
    ELSE ScoredPairs(user, ref, phons, thr)

calculate_phoneme_scores(user, ref, phons, thr) ==
    IF Len(user) /= Len(ref)
    THEN generate_unscorable_result("embedding_count_mismatch")
    ELSE IF 2 * ZeroCount(user) > Len(user)
    THEN generate_unscorable_result("embedding_quality_poor")
    ELSE IF NaNCount(user) > 0
    THEN generate_unscorable_result("nan_embeddings")
    ELSE ScoredPairs(user, ref, phons, thr)

---------------------------------------------------------------------------
(* services.py: distribute_sentence_score and _calculate_scores *)

Difficult == {"TH", "DH", "ZH", "R", "L", "NG", "SH", "CH", "JH", "W", "Y"}
Medium == {"S", "Z", "F", "V", "P", "B", "T", "D", "K", "G"}

\* settings.SCORING_CONFIG.get('SCORE_BOOST', 0.15)
ScoreBoost == Frac(15, 100)

\* max(0.45, ...): the floor of a distributed score
ScoreFloor == Frac(45, 100)

\* random.uniform(lo, hi) of a phoneme: any value of the interval; the two
\* ends and the middle stand for it
VarianceRange(phoneme) ==
    IF phoneme \in Difficult THEN {0 - Frac(8, 100), 0, Frac(8, 100)}
    ELSE IF phoneme \in Medium THEN {0 - Frac(5, 100), 0, Frac(8, 100)}
    ELSE {0 - Frac(3, 100), 0, Frac(10, 100)}

\* One draw of random.uniform per phoneme
RECURSIVE DrawsTo(_, _)
DrawsTo(phons, n) ==
    IF n = 0 THEN {<<>>}
    ELSE {Append(d, v) : d \in DrawsTo(phons, n - 1), v \in VarianceRange(phons[n])}

Draws(phons) == DrawsTo(phons, Len(phons))

distribute_sentence_score(overall_score, phons, thr, variance) ==
    LET boosted_base == Min2(Scale, overall_score + ScoreBoost)
    IN  ScoreList([i \in 1..Len(phons) |->
            ScoreEntry(phons[i],
                       Max2(ScoreFloor, Min2(Scale, boosted_base + variance[i])),
                       thr)])

RECURSIVE SumTo(_, _, _)
SumTo(vs, k, n) == IF n = 0 THEN 0 ELSE SumTo(vs, k, n - 1) + vs[n].x[k]

\* np.mean(user_embeddings, axis=0), up to the positive factor 1/len: the
\* component sums.  The cosine and the zero-norm test do not see the factor.
\* A NaN member makes the mean NaN, an infinite one makes it infinite or NaN.
Mean(vs) ==
    IF \E i \in 1..Len(vs) : HasNaN(vs[i]) THEN VNaN
    ELSE IF \E i \in 1..Len(vs) : HasInf(vs[i]) THEN VInf
    ELSE VNum([k \in 1..Len(vs[1].x) |-> SumTo(vs, k, Len(vs))])

\* The one similarity of the sentence-level path
OverallSimilarity(user, ref) ==
    LET user_avg == IF Len(user) > 1 THEN Mean(user) ELSE user[1]
        r == calculate_cosine_similarity(user_avg, ref[1])
    IN  IF r.exc = "none" THEN r.val ELSE Frac(7, 10)

SentenceLevel(user, ref) == Len(ref) = 1 /\ Len(user) > 0

\* What the random generator hands to one call of _calculate_scores: a draw
\* per phoneme on the sentence-level path, none on the per-phoneme path
RandomDraws(user, ref, phons) ==
    IF SentenceLevel(user, ref) THEN Draws(phons) ELSE {<<>>}

calculate_scores(user, ref, phons, thr, variance) ==
    IF SentenceLevel(user, ref)
    THEN distribute_sentence_score(OverallSimilarity(user, ref), phons, thr, variance)
    ELSE calculate_phoneme_scores(user, ref, phons, thr)

---------------------------------------------------------------------------
(* Inputs *)

\* Largest absolute value of a component of a vector handed to
\* calculate_cosine_similarity on its own
MaxComp == 2

\* Longest phoneme sequence, and longest list of embeddings
MaxPhonemes == 3

CosVecs ==
    {VNone, VNaN, VInf, VNum(<<1>>)}
        \cup {VNum(<<a, b>>) : a \in (0 - MaxComp)..MaxComp, b \in (0 - MaxComp)..MaxComp}

\* The embeddings of a user's audio, and of a reference
UserVecs == {Zero, VNaN, VNum(<<1, 0>>), VNum(<<2, 1>>)}
RefVecs == {Zero, VNum(<<0, 1>>), VNum(<<1, 2>>)}

\* The phoneme sequence of a sentence: the first n of a sequence that goes
\* through a difficult, a medium and another phoneme
PhonemeAt(i) == IF i % 3 = 1 THEN "TH" ELSE IF i % 3 = 2 THEN "S" ELSE "AH"
PhonemeSequence(n) == [i \in 1..n |-> PhonemeAt(i)]

SeqsUpTo(S, lo, hi) == UNION {[1..n -> S] : n \in lo..hi}

CosIdle == cpc = "off" /\ vec1 = VNone /\ vec2 = VNone /\ cos_result = Returned(0)

ScoreIdle ==
    /\ spc = "off" /\ user_embeddings = <<>> /\ reference_embeddings = <<>>
    /\ phonemes = <<>> /\ threshold = DefaultWeakThreshold
    /\ scores = NotScored /\ scores_again = NotScored /\ direct_scores = NotScored

\* The result dict of process_attempt.  returned is FALSE until it returns.
\* dev_mode is the 'dev_mode' key; summary tells the llm_feedback summaries
\* apart; phoneme_scores is the list under 'phoneme_scores'.
NoResult ==
    [returned |-> FALSE, success |-> FALSE, error |-> "", reason |-> "",
     message |-> "", dev_mode |-> FALSE, summary |-> "", suggestion |-> "",
     phoneme_scores |-> <<>>]

NoAsrResult == [status |-> "none", can_proceed |-> FALSE]

NoSentence ==
    [phoneme_sequence |-> <<>>, reference_embeddings |-> <<>>, cache |-> "none",
     has_audio |-> FALSE]

\* A frame matrix: its number of rows (each row has EmbeddingDim columns) and
\* whether it is the zeros matrix of a failed inference
NoMatrix == [frames |-> 0, zeros |-> FALSE]

SliceIdle ==
    /\ epc = "off" /\ timestamps = <<>> /\ num_frames = 0
    /\ full_embeddings = NoMatrix /\ model_runs = 0 /\ phoneme_embeddings = <<>>

NoDecoded == [failed |-> FALSE, text |-> <<>>]

AsrIdle ==
    /\ apc = "idle" /\ asr_decoded = NoDecoded /\ asr_expected_text = <<>>
    /\ asr_threshold = 0 /\ match_threshold = 0
    /\ asr_transcribed = <<>> /\ validation = NoAsrResult

LoadIdle ==
    /\ handles = <<>> /\ threads = <<>>
    /\ built = {} /\ evaled = {} /\ reassigned = {}

NoCache == [kind |-> "none", list |-> <<>>]

CacheIdle ==
    /\ db_reference_embeddings = NoCache /\ db_initial = NoCache
    /\ audio_exists = FALSE /\ callers = <<>>

AlignIdle ==
    /\ alpc = "off" /\ al_pred_ids = <<>> /\ al_expected = <<>> /\ al_result = <<>>

SessIdle ==
    /\ clock = 0 /\ session_rows = <<>> /\ attempt_rows = <<>> /\ requests = <<>>

UnitIdle == SliceIdle /\ AsrIdle /\ LoadIdle /\ CacheIdle /\ AlignIdle /\ SessIdle

NoLlmCall == [tips |-> "not_called", feedback |-> "not_called"]
NoReport == [phoneme_mistakes |-> <<>>, tips |-> <<>>]

PipeIdle ==
    /\ pc = "off" /\ dev_mode_assessment = FALSE /\ nlp_available = TRUE
    /\ sentence = NoSentence /\ asr_result = NoAsrResult /\ user_timestamps = 0
    /\ reference_source = "none" /\ calls = {} /\ result = NoResult
    /\ raised = "none" /\ llm = NoLlmCall /\ mistake_report = NoReport
    /\ stage_log = <<>> /\ failed_calls = {}

---------------------------------------------------------------------------
(* calculate_cosine_similarity on its own *)

InitCosine ==
    /\ cpc = "args" /\ vec1 \in CosVecs /\ vec2 \in CosVecs
    /\ cos_result = Returned(0)
    /\ ScoreIdle /\ PipeIdle /\ UnitIdle

CosineCall ==
    /\ cpc = "args"
    /\ cos_result' = calculate_cosine_similarity(vec1, vec2)
    /\ cpc' = "returned"
    /\ UNCHANGED <<vec1, vec2, scoreVars, pipeVars, unitVars>>

NextCosine == CosineCall

SpecCosine == InitCosine /\ [][NextCosine]_vars

\* A vector the function answers 0 for without computing a cosine
Degenerate(v) ==
    v.kind \in {"none", "nan", "inf"} \/ (v.kind = "num" /\ NormSq(v.x) = 0)

\* C9: calculate_cosine_similarity returns a value in [0,1] and never raises;
\* it returns exactly 0 when either vector is None, has zero norm or holds a
\* NaN or an Inf, and when the cosine is negative.
C9_CosineInUnitRange ==
    cpc = "returned" =>
        /\ cos_result.exc = "none"
        /\ cos_result.val >= 0 /\ cos_result.val <= Scale
        /\ (Degenerate(vec1) \/ Degenerate(vec2)) => cos_result.val = 0
        /\ (~Degenerate(vec1) /\ ~Degenerate(vec2) /\ Len(vec1.x) = Len(vec2.x)
                /\ Dot(vec1.x, vec2.x) < 0) => cos_result.val = 0

\* C9 witness: a negative cosine was clamped to 0
C9_Witness ==
    /\ cpc = "returned" /\ vec1 = VNum(<<1, 0>>) /\ vec2 = VNum(<<0 - 1, 1>>)
    /\ cos_result = Returned(0)

---------------------------------------------------------------------------
(* The scoring stage: AssessmentService._calculate_scores, and            *)
(* calculate_phoneme_scores called with the same arguments                 *)

ScoreArgs ==
    /\ user_embeddings \in SeqsUpTo(UserVecs, 0, MaxPhonemes)
    /\ reference_embeddings \in SeqsUpTo(RefVecs, 0, MaxPhonemes)
    /\ phonemes \in {PhonemeSequence(n) : n \in 1..MaxPhonemes}
    /\ threshold \in WeakThresholds
    /\ scores = NotScored /\ scores_again = NotScored /\ direct_scores = NotScored

InitScore == spc = "args" /\ ScoreArgs /\ CosIdle /\ PipeIdle /\ UnitIdle

CalculateScores ==
    /\ spc = "args"
    /\ \E variance \in RandomDraws(user_embeddings, reference_embeddings, phonemes) :
          scores' = calculate_scores(user_embeddings, reference_embeddings,
                                     phonemes, threshold, variance)
    /\ spc' = "scored"
    /\ UNCHANGED <<user_embeddings, reference_embeddings, phonemes, threshold,
                   scores_again, direct_scores, cosVars, unitVars, pipeVars>>

CalculatePhonemeScores ==
    /\ spc = "scored"
    /\ direct_scores' = calculate_phoneme_scores(user_embeddings, reference_embeddings,
                                                 phonemes, threshold)
    /\ spc' = "direct"
    /\ UNCHANGED <<user_embeddings, reference_embeddings, phonemes, threshold,
                   scores, scores_again, cosVars, unitVars, pipeVars>>

NextScore == CalculateScores \/ CalculatePhonemeScores

SpecScore == InitScore /\ [][NextScore]_vars

\* The same call once more, on the same arguments
CalculateScoresAgain ==
    /\ spc = "scored"
    /\ \E variance \in RandomDraws(user_embeddings, reference_embeddings, phonemes) :
          scores_again' = calculate_scores(user_embeddings, reference_embeddings,
                                           phonemes, threshold, variance)
    /\ spc' = "again"
    /\ UNCHANGED <<user_embeddings, reference_embeddings, phonemes, threshold,
                   scores, direct_scores, cosVars, unitVars, pipeVars>>

NextRepeat == CalculateScores \/ CalculateScoresAgain

SpecRepeat == InitScore /\ [][NextRepeat]_vars

\* The similarities one call of _calculate_scores computes: the overall one
\* on the sentence-level path, one per pair on the per-phoneme path once the
\* validations are passed
ComputedSimilarities(user, ref, phons) ==
    IF SentenceLevel(user, ref) THEN {OverallSimilarity(user, ref)}
    ELSE IF \/ Len(user) /= Len(ref)
            \/ 2 * ZeroCount(user) > Len(user)
            \/ NaNCount(user) > 0
    THEN {}
    ELSE {PairSimilarity(user, ref, i) :
             i \in 1..Min2(Len(user), Min2(Len(ref), Len(phons)))}

\* C5: with a single reference vector, two runs of _calculate_scores on the
\* same user vectors, reference vector and phonemes return the same scores.
C5_SentenceScoresDeterministic ==
    (spc = "again" /\ Len(reference_embeddings) = 1) => scores_again = scores

\* C6: when every similarity the scoring stage computed is exactly zero, it
\* returns the unscorable result 'all_scores_zero', never a list of scores.
C6_AllZeroIsUnscorable ==
    (/\ spc = "scored"
     /\ ComputedSimilarities(user_embeddings, reference_embeddings, phonemes) = {0})
        => scores = generate_unscorable_result("all_scores_zero")

\* C7: with one reference vector per user vector, or with a single reference
\* vector, the scoring stage returns unscorable 'embedding_quality_poor' when
\* more than half of the user vectors are zero vectors, and does not return
\* that reason when at most half are.
C7_ZeroVectorsUnscorable ==
    (/\ spc = "scored"
     /\ \/ Len(reference_embeddings) = Len(user_embeddings)
        \/ Len(reference_embeddings) = 1)
        => IF 2 * ZeroCount(user_embeddings) > Len(user_embeddings)
           THEN scores = generate_unscorable_result("embedding_quality_poor")
           ELSE scores.reason /= "embedding_quality_poor"

NaNPresent ==
    /\ spc = "direct"
    /\ Len(user_embeddings) = Len(reference_embeddings)
    /\ NaNCount(user_embeddings) > 0

\* C8 as stated: calculate_phoneme_scores, given as many user as reference
\* vectors and a NaN user vector, returns unscorable 'nan_embeddings'
\* whatever the other user vectors hold.
C8_NaNAlwaysNanEmbeddings ==
    NaNPresent => direct_scores = generate_unscorable_result("nan_embeddings")

\* C8: calculate_phoneme_scores, given as many user as reference vectors and
\* a NaN user vector, never returns a score list: it returns unscorable, with
\* reason 'embedding_quality_poor' when more than half of the user vectors are
\* zero vectors and 'nan_embeddings' otherwise.
C8_NaNIsUnscorable ==
    NaNPresent =>
        direct_scores =
            generate_unscorable_result(
                IF 2 * ZeroCount(user_embeddings) > Len(user_embeddings)
                THEN "embedding_quality_poor" ELSE "nan_embeddings")

\* C8 witness: a NaN vector next to two zero vectors
C8_Witness ==
    /\ NaNPresent
    /\ user_embeddings = <<Zero, Zero, VNaN>>
    /\ direct_scores.reason = "embedding_quality_poor"

WeakIffBelow(entries, thr) ==
    \A i \in 1..Len(entries) : entries[i].is_weak <=> (entries[i].sim < thr)

\* C10: every score entry of the scoring stage is weak exactly when its
\* similarity is strictly below the weak threshold; at the threshold it is not
\* weak.  The similarity of an entry is the value its score is the rounding
\* of: the cosine similarity of the pair on the per-phoneme path, the
\* distributed score on the sentence-level path.
C10_WeakIffStrictlyBelow ==
    /\ spc \in {"scored", "direct"} => WeakIffBelow(scores.entries, threshold)
    /\ spc = "direct" =>
          /\ WeakIffBelow(direct_scores.entries, threshold)
          /\ \A i \in 1..Len(direct_scores.entries) :
                direct_scores.entries[i].is_weak
                    <=> (PairSimilarity(user_embeddings, reference_embeddings, i)
                            < threshold)

\* C10 witness: a pair whose similarity is the threshold, scored not weak
C10_Witness ==
    /\ spc = "direct"
    /\ \E i \in 1..Len(direct_scores.entries) :
          /\ PairSimilarity(user_embeddings, reference_embeddings, i) = threshold
          /\ direct_scores.entries[i].sim = threshold
          /\ ~direct_scores.entries[i].is_weak

---------------------------------------------------------------------------
(* asr_validator.py: text, difflib.SequenceMatcher and get_word_diff       *)
(* A string is a sequence of one-character strings.                        *)

\* str.lower(), on the letters that occur
UpperCase ==
    <<"A", "B", "C", "D", "E", "F", "G", "H", "I", "J", "K", "L", "M",
      "N", "O", "P", "Q", "R", "S", "T", "U", "V", "W", "X", "Y", "Z">>
LowerCase ==
    <<"a", "b", "c", "d", "e", "f", "g", "h", "i", "j", "k", "l", "m",
      "n", "o", "p", "q", "r", "s", "t", "u", "v", "w", "x", "y", "z">>

LowerChar(c) ==
    IF \E i \in 1..Len(UpperCase) : UpperCase[i] = c
    THEN LowerCase[CHOOSE i \in 1..Len(UpperCase) : UpperCase[i] = c]
    ELSE c

Lower(str) == [i \in 1..Len(str) |-> LowerChar(str[i])]

RECURSIVE LStrip(_)
LStrip(str) == IF str /= <<>> /\ Head(str) = " " THEN LStrip(Tail(str)) ELSE str

RECURSIVE RStrip(_)
RStrip(str) ==
    IF str /= <<>> /\ str[Len(str)] = " "
    THEN RStrip(SubSeq(str, 1, Len(str) - 1)) ELSE str

\* str.strip()
Strip(str) == RStrip(LStrip(str))

\* str.split(): the maximal runs without a blank.  word is the run read so far.
RECURSIVE SplitFrom(_, _, _)
SplitFrom(str, i, word) ==
    IF i > Len(str) THEN (IF word = <<>> THEN <<>> ELSE <<word>>)
    ELSE IF str[i] = " "
    THEN (IF word = <<>> THEN <<>> ELSE <<word>>) \o SplitFrom(str, i + 1, <<>>)
    ELSE SplitFrom(str, i + 1, Append(word, str[i]))

Split(str) == SplitFrom(str, 1, <<>>)

\* ' '.join(words)
RECURSIVE Join(_)
Join(words) ==
    IF words = <<>> THEN <<>>
    ELSE IF Len(words) = 1 THEN words[1]
    ELSE words[1] \o <<" ">> \o Join(Tail(words))

\* The length of the common run of a from i and b from j (0-based), inside
\* a[..ahi) and b[..bhi)
RECURSIVE MatchLen(_, _, _, _, _, _)
MatchLen(a, b, i, j, ahi, bhi) ==
    IF i < ahi /\ j < bhi /\ a[i + 1] = b[j + 1]
    THEN 1 + MatchLen(a, b, i + 1, j + 1, ahi, bhi) ELSE 0

SetMax(S) == CHOOSE x \in S : \A y \in S : y <= x
SetMin(S) == CHOOSE x \in S : \A y \in S : x <= y

\* SequenceMatcher.find_longest_match(alo, ahi, blo, bhi): a longest common
\* block, the one starting earliest in a and, of those, earliest in b
find_longest_match(a, b, alo, ahi, blo, bhi) ==
    IF alo >= ahi \/ blo >= bhi THEN [i |-> alo, j |-> blo, size |-> 0]
    ELSE LET k == SetMax({MatchLen(a, b, i, j, ahi, bhi) :
                             i \in alo..(ahi - 1), j \in blo..(bhi - 1)})
         IN  IF k = 0 THEN [i |-> alo, j |-> blo, size |-> 0]
             ELSE LET besti == SetMin({i \in alo..(ahi - 1) :
                                 \E j \in blo..(bhi - 1) :
                                     MatchLen(a, b, i, j, ahi, bhi) = k})
                      bestj == SetMin({j \in blo..(bhi - 1) :
                                 MatchLen(a, b, besti, j, ahi, bhi) = k})
                  IN  [i |-> besti, j |-> bestj, size |-> k]

\* SequenceMatcher.get_matching_blocks, without the closing (la, lb, 0)
RECURSIVE MatchingBlocks(_, _, _, _, _, _)
MatchingBlocks(a, b, alo, ahi, blo, bhi) ==
    LET m == find_longest_match(a, b, alo, ahi, blo, bhi)
    IN  IF m.size = 0 THEN <<>>
        ELSE MatchingBlocks(a, b, alo, m.i, blo, m.j)
                \o <<m>>
                \o MatchingBlocks(a, b, m.i + m.size, ahi, m.j + m.size, bhi)

get_matching_blocks(a, b) ==
    Append(MatchingBlocks(a, b, 0, Len(a), 0, Len(b)),
           [i |-> Len(a), j |-> Len(b), size |-> 0])

RECURSIVE SumSizes(_)
SumSizes(blocks) == IF blocks = <<>> THEN 0 ELSE Head(blocks).size + SumSizes(Tail(blocks))

\* SequenceMatcher.ratio() = 2.0 * matches / (len(a) + len(b)), 1.0 for two
\* empty sequences: the pair [matches |-> 2 * matches, total |-> lengths]
ratio(a, b) ==
    IF Len(a) + Len(b) = 0 THEN [matches |-> 1, total |-> 1]
    ELSE [matches |-> 2 * SumSizes(get_matching_blocks(a, b)),
          total |-> Len(a) + Len(b)]

\* ratio >= p / 100
RatioAtLeast(r, p) == 100 * r.matches >= p * r.total

\* round(similarity, 3), in thousandths.  A ratio of strings of fewer than
\* 160 characters together that lies halfway between two thousandths is an
\* odd multiple of 1/16, an exact float, which round() takes to the even one.
RoundedRatio(r) ==
    LET n == (1000 * r.matches) \div r.total
        rem == (1000 * r.matches) % r.total
    IN  IF 2 * rem > r.total \/ (2 * rem = r.total /\ n % 2 = 1) THEN n + 1 ELSE n

\* SequenceMatcher.get_opcodes: i and j are where the last block ended
RECURSIVE OpcodesFrom(_, _, _)
OpcodesFrom(blocks, i, j) ==
    IF blocks = <<>> THEN <<>>
    ELSE LET m == Head(blocks)
             tag == IF i < m.i /\ j < m.j THEN "replace"
                    ELSE IF i < m.i THEN "delete"
                    ELSE IF j < m.j THEN "insert" ELSE ""
             gap == IF tag = "" THEN <<>>
                    ELSE <<[tag |-> tag, i1 |-> i, i2 |-> m.i, j1 |-> j, j2 |-> m.j]>>
             equal == IF m.size = 0 THEN <<>>
                      ELSE <<[tag |-> "equal", i1 |-> m.i, i2 |-> m.i + m.size,
                              j1 |-> m.j, j2 |-> m.j + m.size]>>
         IN  gap \o equal \o OpcodesFrom(Tail(blocks), m.i + m.size, m.j + m.size)

get_opcodes(a, b) == OpcodesFrom(get_matching_blocks(a, b), 0, 0)

StartsWith(word, prefix) ==
    Len(prefix) <= Len(word) /\ SubSeq(word, 1, Len(prefix)) = prefix

EndsWith(word, suffix) ==
    Len(suffix) <= Len(word)
        /\ SubSeq(word, Len(word) - Len(suffix) + 1, Len(word)) = suffix

\* c in word
Contains(word, c) == \E i \in 1..Len(word) : word[i] = c

\* 'th' in word
ContainsTh(word) == \E i \in 1..(Len(word) - 1) : word[i] = "t" /\ word[i + 1] = "h"

Issue(kind, detail) == [kind |-> kind, detail |-> detail]

\* _detect_word_issue; <<>> stands for a user word of None.  detail holds the
\* characters put into the issue's name.
DetectWordIssueFallbackOnly(user_word, expected_word) ==
    IF user_word = <<>> THEN Issue("word_skipped", <<>>)
    ELSE Issue("mispronounced", <<>>)
detect_word_issue(user_word, expected_word) ==
    IF user_word = <<>> THEN Issue("word_skipped", <<>>)
    ELSE LET u == Lower(user_word)
             e == Lower(expected_word)
             diffs == {i \in 1..Len(u) : u[i] /= e[i]}
         IN  IF StartsWith(e, u) /\ Len(e) > Len(u)
             THEN Issue("missing_ending", SubSeq(e, Len(u) + 1, Len(e)))
             ELSE IF EndsWith(e, u) /\ Len(e) > Len(u)
             THEN Issue("missing_beginning", SubSeq(e, 1, Len(e) - Len(u)))
             ELSE IF Len(u) = Len(e) /\ Cardinality(diffs) = 1
             THEN LET pos == CHOOSE i \in diffs : TRUE
                  IN  Issue("substituted", <<e[pos], u[pos]>>)
             ELSE IF ContainsTh(e) /\ (Contains(u, "d") \/ Contains(u, "t"))
             THEN Issue("th_substitution", <<>>)
             ELSE Issue("mispronounced", <<>>)

NoIssue == Issue("", <<>>)
Nothing == <<"(nothing)">>

DiffEntry(word, type, position, user_said, issue) ==
    [word |-> word, type |-> type, position |-> position,
     user_said |-> user_said, issue |-> issue]

\* The entries of one opcode, in the order the loop appends them
OpcodeEntries(op, transcribed_words, expected_words) ==
    CASE op.tag = "equal" ->
            [k \in 1..(op.j2 - op.j1) |->
                DiffEntry(expected_words[op.j1 + k], "correct", op.j1 + k - 1,
                          <<>>, NoIssue)]
      [] op.tag = "replace" ->
            \* one entry per expected word of the block; a transcribed word
            \* beyond them gets none
            [k \in 1..(op.j2 - op.j1) |->
                LET user_word == IF op.i1 + k - 1 < op.i2
                                 THEN transcribed_words[op.i1 + k] ELSE <<>>
                IN  DiffEntry(expected_words[op.j1 + k], "wrong", op.j1 + k - 1,
                              IF user_word = <<>> THEN Nothing ELSE user_word,
                              detect_word_issue(user_word, expected_words[op.j1 + k]))]
      [] op.tag = "delete" ->
            [k \in 1..(op.i2 - op.i1) |->
                DiffEntry(transcribed_words[op.i1 + k], "extra", op.i1 + k - 1,
                          transcribed_words[op.i1 + k], NoIssue)]
      [] op.tag = "insert" ->
            [k \in 1..(op.j2 - op.j1) |->
                DiffEntry(expected_words[op.j1 + k], "missing", op.j1 + k - 1,
                          <<>>, NoIssue)]

RECURSIVE AllEntries(_, _, _)
AllEntries(ops, transcribed_words, expected_words) ==
    IF ops = <<>> THEN <<>>
    ELSE OpcodeEntries(Head(ops), transcribed_words, expected_words)
            \o AllEntries(Tail(ops), transcribed_words, expected_words)

\* sorted(results, key=position): stable, so equal positions keep their order
RECURSIVE InsertByPosition(_, _)
InsertByPosition(sorted, entry) ==
    IF sorted = <<>> THEN <<entry>>
    ELSE IF sorted[Len(sorted)].position <= entry.position THEN Append(sorted, entry)
    ELSE Append(InsertByPosition(SubSeq(sorted, 1, Len(sorted) - 1), entry),
                sorted[Len(sorted)])

RECURSIVE SortedByPosition(_, _)
SortedByPosition(entries, n) ==
    IF n = 0 THEN <<>>
    ELSE InsertByPosition(SortedByPosition(entries, n - 1), entries[n])

get_word_diff(transcribed_words, expected_words) ==
    LET results == AllEntries(get_opcodes(transcribed_words, expected_words),
                              transcribed_words, expected_words)
    IN  SortedByPosition(results, Len(results))

RECURSIVE OfType(_, _)
OfType(entries, type) ==
    IF entries = <<>> THEN <<>>
    ELSE (IF Head(entries).type = type THEN <<Head(entries)>> ELSE <<>>)
            \o OfType(Tail(entries), type)

---------------------------------------------------------------------------
(* asr_validator.py: transcribe_audio and validate_speech *)

\* similarity_threshold: float = 0.6, in hundredths
DefaultSimilarityThreshold == 60

\* if similarity >= 0.9, in hundredths
MatchRatio == 90

Message(kind, error_count) == [kind |-> kind, error_count |-> error_count]

\* The dict validate_speech returns.  similarity is in thousandths.
ValidationResult(status, transcribed, similarity, word_diff, can_proceed, message) ==
    [status |-> status, transcribed |-> transcribed, similarity |-> similarity,
     word_diff |-> word_diff,
     missing_words |-> OfType(word_diff, "missing"),
     extra_words |-> OfType(word_diff, "extra"),
     wrong_words |-> OfType(word_diff, "wrong"),
     can_proceed |-> can_proceed, message |-> message]

\* What the ASR model makes of an audio file: the decoded text, or a failure
\* inside the try block of transcribe_audio
Decoded(text) == [failed |-> FALSE, text |-> text]
InferenceFailed == [failed |-> TRUE, text |-> <<>>]

\* transcribe_audio, once the model is loaded
TranscribeAudioUnstripped(decoded) ==
    IF decoded.failed THEN <<>> ELSE Lower(decoded.text)
transcribe_audio(decoded) ==
    IF decoded.failed THEN <<>> ELSE Strip(Lower(decoded.text))

validate_speech(transcribed, expected_text, similarity_threshold) ==
    IF transcribed = <<>>
    THEN ValidationResult("error", <<>>, 0, <<>>, FALSE,
                          Message("could_not_transcribe", 0))
    ELSE LET trans_normalized == Strip(Lower(transcribed))
             expected_normalized == Strip(Lower(expected_text))
             similarity == ratio(trans_normalized, expected_normalized)
             word_diff == get_word_diff(Split(trans_normalized),
                                        Split(expected_normalized))
             error_count == Len(OfType(word_diff, "missing"))
                                + Len(OfType(word_diff, "wrong"))
         IN  IF RatioAtLeast(similarity, MatchRatio)
             THEN ValidationResult("match", transcribed, RoundedRatio(similarity),
                                   word_diff, TRUE, Message("great", 0))
             ELSE IF RatioAtLeast(similarity, similarity_threshold)
             THEN ValidationResult("partial", transcribed, RoundedRatio(similarity),
                                   word_diff, TRUE,
                                   Message("good_attempt", error_count))
             ELSE ValidationResult("mismatch", transcribed, RoundedRatio(similarity),
                                   word_diff, FALSE,
                                   Message("said_something_different", 0))

she == <<"s", "h", "e">>
sell == <<"s", "e", "l", "l">>
sells == <<"s", "e", "l", "l", "s">>
tells == <<"t", "e", "l", "l", "s">>
seashells == <<"s", "e", "a", "s", "h", "e", "l", "l", "s">>
that == <<"t", "h", "a", "t">>
dat == <<"d", "a", "t">>
hat == <<"h", "a", "t">>
dog == <<"d", "o", "g">>

SheSellsSeashells == <<"S", "h", "e">> \o <<" ">> \o Join(<<sells, seashells>>)

ExpectedTexts == {SheSellsSeashells, that, Join(<<sells, that>>)}

\* Texts the ASR model decodes; it writes capitals
DecodedTexts ==
    {Join(<<she, sells, seashells>>), Join(<<she, sell, seashells>>),
     <<" ", "S", "H", "E", " ", "S", "E", "L", "L", " ">> \o seashells \o <<" ">>,
     Join(<<she, seashells>>), Join(<<she, sells, dog, seashells>>),
     Join(<<she, tells, seashells>>), Join(<<dog, dog>>), that, dat, hat, dog,
     Join(<<sell, dat, dog>>), Join(<<sells, dat>>), Join(<<that, sells>>),
     <<>>, <<" ">>}

---------------------------------------------------------------------------
(* validate_speech(audio_path, expected_text, similarity_threshold), called *)
(* on its own                                                              *)

\* Proceed thresholds a caller passes, and the match thresholds a deployment
\* would configure, in hundredths.  validate_speech has no parameter for the
\* second: match_threshold is what the caller wants, never read by the code.
ProceedThresholds == {50, DefaultSimilarityThreshold, 85, 95}
MatchThresholds == {80, MatchRatio}

InitAsr ==
    /\ apc = "call"
    /\ asr_decoded \in {Decoded(t) : t \in DecodedTexts} \cup {InferenceFailed}
    /\ asr_expected_text \in ExpectedTexts
    /\ asr_threshold \in ProceedThresholds
    /\ match_threshold \in MatchThresholds
    /\ asr_transcribed = <<>> /\ validation = NoAsrResult
    /\ CosIdle /\ ScoreIdle /\ PipeIdle /\ SliceIdle /\ LoadIdle /\ CacheIdle /\ AlignIdle /\ SessIdle

\* transcribe_audio: _get_asr_model() is called before the try block, so a
\* model that cannot be loaded raises; every later failure returns ""
TranscribeAudio ==
    /\ apc = "call"
    /\ \/ apc' = "raised" /\ UNCHANGED asr_transcribed
       \/ apc' = "transcribed" /\ asr_transcribed' = transcribe_audio(asr_decoded)
    /\ UNCHANGED <<asr_decoded, asr_expected_text, asr_threshold, match_threshold,
                   validation, cosVars, scoreVars, pipeVars, sliceVars, loadVars, cacheVars, alignVars, sessVars>>

ValidateSpeechCall ==
    /\ apc = "transcribed"
    /\ validation' = validate_speech(asr_transcribed, asr_expected_text, asr_threshold)
    /\ apc' = "returned"
    /\ UNCHANGED <<asr_decoded, asr_expected_text, asr_threshold, match_threshold,
                   asr_transcribed, cosVars, scoreVars, pipeVars, sliceVars, loadVars, cacheVars, alignVars, sessVars>>

NextAsr == TranscribeAudio \/ ValidateSpeechCall

SpecAsr == InitAsr /\ [][NextAsr]_vars

\* SequenceMatcher(None, trans_normalized, expected_normalized).ratio() of the call
Similarity ==
    ratio(Strip(Lower(asr_transcribed)), Strip(Lower(asr_expected_text)))

\* C13: for a non-empty transcript and the configured proceed threshold p and
\* match threshold m, the status is 'match' iff similarity >= m, 'partial' iff
\* p <= similarity < m, 'mismatch' iff similarity < p, and can_proceed holds
\* iff similarity >= p.
C13_StatusByThresholds ==
    (apc = "returned" /\ asr_transcribed /= <<>>) =>
        /\ validation.status = "match" <=> RatioAtLeast(Similarity, match_threshold)
        /\ validation.status = "partial" <=>
              /\ RatioAtLeast(Similarity, asr_threshold)
              /\ ~RatioAtLeast(Similarity, match_threshold)
        /\ validation.status = "mismatch" <=> ~RatioAtLeast(Similarity, asr_threshold)
        /\ validation.can_proceed <=> RatioAtLeast(Similarity, asr_threshold)

\* "She sells seashells" read as "She sell seashells", default thresholds
ScenarioA ==
    /\ apc = "returned"
    /\ asr_expected_text = SheSellsSeashells
    /\ asr_transcribed = Join(<<she, sell, seashells>>)
    /\ asr_threshold = DefaultSimilarityThreshold /\ match_threshold = MatchRatio

\* C15: for the expected text "She sells seashells" and the transcript "She
\* sell seashells" the word diff has exactly one 'wrong' entry, at position 1
\* with the issue "missing the trailing s", the status is 'partial' and
\* can_proceed is true.
C15_ScenarioAIsPartial ==
    ScenarioA =>
        /\ Len(validation.wrong_words) = 1
        /\ validation.wrong_words[1].position = 1
        /\ validation.wrong_words[1].issue = Issue("missing_ending", <<"s">>)
        /\ validation.status = "partial"
        /\ validation.can_proceed

\* The words and opcodes of the call that returned
TransWords == Split(Strip(Lower(asr_transcribed)))
ExpectedWords == Split(Strip(Lower(asr_expected_text)))
Opcodes == get_opcodes(TransWords, ExpectedWords)

HasEntry(type, position, word) ==
    \E i \in 1..Len(validation.word_diff) :
        /\ validation.word_diff[i].type = type
        /\ validation.word_diff[i].position = position
        /\ validation.word_diff[i].word = word

\* The replace blocks pair the k-th transcribed word with the k-th expected word
WrongKinds == {validation.wrong_words[i].issue.kind :
                  i \in 1..Len(validation.wrong_words)}

Diagnosed == apc = "returned" /\ validation.status /= "error"

ExpectedIssue(u, e) ==
    IF u = <<>> THEN "word_skipped"
    ELSE IF Len(e) > Len(u) /\ SubSeq(e, 1, Len(u)) = u THEN "missing_ending"
    ELSE IF Len(e) > Len(u) /\ SubSeq(e, Len(e) - Len(u) + 1, Len(e)) = u
         THEN "missing_beginning"
    ELSE IF Len(e) = Len(u) /\ Cardinality({i \in 1..Len(e) : e[i] /= u[i]}) = 1
         THEN "substituted"
    ELSE IF ContainsTh(e) /\ (Contains(u, "d") \/ Contains(u, "t"))
         THEN "th_substitution"
    ELSE "mispronounced"

EntriesOfTypes(types) ==
    {i \in 1..Len(validation.word_diff) : validation.word_diff[i].type \in types}

\* Every index of the expected words has exactly one 'correct', 'wrong' or
\* 'missing' entry
ExpectedAccounted ==
    \A j \in 0..(Len(ExpectedWords) - 1) :
        Cardinality({i \in EntriesOfTypes({"correct", "wrong", "missing"}) :
                        validation.word_diff[i].position = j}) = 1

\* As many transcript words as entries that stand for one: a 'correct'
\* entry, a 'wrong' entry with something said, or an 'extra' entry
TranscriptAccounted ==
    Len(TransWords) =
        Cardinality(EntriesOfTypes({"correct", "extra"}))
            + Cardinality({i \in EntriesOfTypes({"wrong"}) :
                              validation.word_diff[i].user_said /= Nothing})

InPositionOrder ==
    \A i \in 2..Len(validation.word_diff) :
        validation.word_diff[i - 1].position <= validation.word_diff[i].position

\* C27: get_word_diff accounts for both word lists: every expected-word
\* index appears exactly once among the 'correct', 'wrong' and 'missing'
\* entries, every transcript word is accounted for exactly once, as the
\* match of a 'correct' entry, the user_said of a 'wrong' entry or an 'extra'
\* entry, and the entries are sorted by position.
C27_WordDiffIsCompleteAccount ==
    Diagnosed => (ExpectedAccounted /\ TranscriptAccounted /\ InPositionOrder)

---------------------------------------------------------------------------
(* services.py: AssessmentService.process_attempt *)

\* Longest phoneme sequence of a sentence put through process_attempt
MaxSentencePhonemes == 2

\* What the ASR model makes of the attempt's audio
AttemptDecodings ==
    {Decoded(Join(<<she, sells, seashells>>)), Decoded(Join(<<she, sell, seashells>>)),
     Decoded(Join(<<she, seashells>>)), Decoded(Join(<<dog, dog>>)),
     Decoded(<<" ">>), InferenceFailed}

\* What a reference recording embeds to, and what a user's audio embeds to
ReferenceVec == VNum(<<1, 2>>)
AudioVecs == {VNum(<<1, 0>>), VNum(<<2, 1>>)}

\* sentence.reference_embeddings (cache): unset ("none"), a pickled list of
\* vectors ("valid"), a pickled empty list ("empty") or bytes that do not
\* unpickle ("corrupt").  has_audio: get_audio_source() names an existing file.
CachedLists(n) == {<<ReferenceVec>>, [i \in 1..Max2(n, 1) |-> ReferenceVec]}

SentenceTexts == {SheSellsSeashells, <<>>}

Sentences ==
    UNION {
        {[text |-> t,
          phoneme_sequence |-> PhonemeSequence(n), cache |-> c,
          reference_embeddings |-> <<>>, has_audio |-> a] :
            t \in SentenceTexts, c \in {"none", "empty", "corrupt"}, a \in BOOLEAN}
        \cup
        {[text |-> t,
          phoneme_sequence |-> PhonemeSequence(n), cache |-> "valid",
          reference_embeddings |-> e, has_audio |-> a] :
            t \in SentenceTexts, e \in CachedLists(n), a \in BOOLEAN} :
        n \in 0..MaxSentencePhonemes}

Init ==
    /\ pc = "start"
    /\ dev_mode_assessment \in BOOLEAN /\ nlp_available \in BOOLEAN
    /\ sentence \in Sentences
    /\ asr_result = NoAsrResult /\ user_timestamps = 0
    /\ reference_source = "none" /\ calls = {} /\ result = NoResult
    /\ raised = "none" /\ llm = NoLlmCall /\ mistake_report = NoReport
    /\ stage_log = <<>> /\ failed_calls = {}
    /\ apc = "idle" /\ asr_decoded \in AttemptDecodings /\ asr_expected_text = <<>>
    /\ asr_threshold = 0 /\ match_threshold = 0
    /\ asr_transcribed = <<>> /\ validation = NoAsrResult
    /\ ScoreIdle /\ CosIdle /\ SliceIdle /\ LoadIdle /\ CacheIdle /\ AlignIdle /\ SessIdle

\* _generate_dev_mode_result: a score drawn per phoneme, 'dev_mode': True
DevScores == {Frac(6, 10), Scale}

DevModeResult(dev_scores, summary) ==
    [returned |-> TRUE, success |-> TRUE, error |-> "", reason |-> "",
     message |-> "", dev_mode |-> TRUE, summary |-> summary, suggestion |-> "",
     phoneme_scores |->
        [i \in 1..Len(sentence.phoneme_sequence) |->
            [phoneme |-> sentence.phoneme_sequence[i], score |-> dev_scores[i]]]]

FailureResult(error, reason, message, suggestion) ==
    [returned |-> TRUE, success |-> FALSE, error |-> error, reason |-> reason,
     message |-> message, dev_mode |-> FALSE, summary |-> "", suggestion |-> suggestion,
     phoneme_scores |-> <<>>]

SuccessResultWithoutScores(phoneme_scores, weak_phonemes, overall_score, mistakes, summary) ==
    [returned |-> TRUE, success |-> TRUE, error |-> "", reason |-> "",
     message |-> "", dev_mode |-> FALSE, summary |-> summary, suggestion |-> "",
     phoneme_scores |-> <<>>, weak_phonemes |-> weak_phonemes,
     overall_score |-> overall_score, mistakes |-> mistakes]
SuccessResult(phoneme_scores, weak_phonemes, overall_score, mistakes, summary) ==
    [returned |-> TRUE, success |-> TRUE, error |-> "", reason |-> "",
     message |-> "", dev_mode |-> FALSE, summary |-> summary, suggestion |-> "",
     phoneme_scores |-> phoneme_scores, weak_phonemes |-> weak_phonemes,
     overall_score |-> overall_score, mistakes |-> mistakes]

Return(r) == pc' = "done" /\ result' = r /\ raised' = "none"

\* An exception: its type, and whether its text holds "no audio source"
ValueErrorOf(no_audio_source) ==
    [type |-> "ValueError", no_audio_source |-> no_audio_source]
OtherException == [type |-> "Exception", no_audio_source |-> FALSE]

\* The except clauses of process_attempt
Except(e) ==
    IF e.type = "ValueError"
    THEN IF e.no_audio_source
         THEN \E dev_scores \in [1..Len(sentence.phoneme_sequence) -> DevScores] :
                 Return(DevModeResult(dev_scores, "reference_audio_not_available"))
         ELSE pc' = "done" /\ raised' = e.type /\ UNCHANGED result
    ELSE Return(FailureResult(e.type, "", "", ""))

Enter(stage) == calls' = calls \cup {stage} /\ stage_log' = Append(stage_log, stage)

\* process_attempt up to the try block
ProcessAttempt ==
    /\ pc = "start"
    /\ IF dev_mode_assessment \/ ~nlp_available
       THEN \E dev_scores \in [1..Len(sentence.phoneme_sequence) -> DevScores] :
               Return(DevModeResult(dev_scores, "development_mode"))
       ELSE pc' = "clean_audio" /\ UNCHANGED <<result, raised>>
    /\ UNCHANGED <<dev_mode_assessment, nlp_available, failed_calls, llm, mistake_report, sentence, asr_result,
                   user_timestamps, reference_source, calls, stage_log,
                   scoreVars, cosVars, unitVars>>

\* clean_audio: returns the cleaned file's path, or re-raises what failed
\* (normalize_audio raises ValueError on audio without samples)
CleanAudio ==
    /\ pc = "clean_audio"
    /\ Enter("clean_audio")
    /\ \/ pc' = "validate_speech" /\ UNCHANGED <<result, raised>>
       \/ \E e \in {ValueErrorOf(FALSE), OtherException} : Except(e)
    /\ UNCHANGED <<dev_mode_assessment, nlp_available, failed_calls, llm, mistake_report, sentence, asr_result,
                   user_timestamps, reference_source, scoreVars, cosVars, unitVars>>

\* The gatekeeper: transcribe_audio loads the model outside its try block, so
\* a failed load raises; any later failure gives the empty transcript
ValidateSpeech ==
    /\ pc = "validate_speech"
    /\ Enter("validate_speech")
    /\ \/ /\ asr_result' = validate_speech(transcribe_audio(asr_decoded), sentence.text,
                                              DefaultSimilarityThreshold)
          /\ failed_calls' = IF asr_decoded.failed
                              THEN failed_calls \cup {"transcription"}
                              ELSE failed_calls
          /\ pc' = "gate" /\ UNCHANGED <<result, raised>>
       \/ /\ Except(OtherException)
          /\ failed_calls' = failed_calls \cup {"transcription"}
          /\ UNCHANGED asr_result
    /\ UNCHANGED <<dev_mode_assessment, nlp_available, llm, mistake_report, sentence,
                   user_timestamps, reference_source, scoreVars, cosVars, unitVars>>

\* if not asr_result.get('can_proceed', False)
RejectedOnMismatchOnly(asr) == asr.status = "mismatch"
Rejected(asr) == ~asr.can_proceed

Gatekeeper ==
    /\ pc = "gate"
    /\ IF Rejected(asr_result)
       THEN Return(FailureResult("content_mismatch", "", asr_result.message,
                                 "Please try again and say the exact sentence shown."))
       ELSE pc' = "align_audio" /\ UNCHANGED <<result, raised>>
    /\ UNCHANGED <<dev_mode_assessment, nlp_available, failed_calls, llm, mistake_report, sentence, asr_result,
                   user_timestamps, reference_source, calls, stage_log,
                   scoreVars, cosVars, unitVars>>

\* nlp_core.aligner.get_phoneme_timestamps_with_text: one window per expected
\* phoneme, here the number of windows
get_phoneme_timestamps_with_text(expected_phonemes) == Len(expected_phonemes)

\* _align_audio: "if sentence_text" chooses the aligner
AlignerPhonemesOnly(sentence_text) == "get_phoneme_timestamps"
Aligner(sentence_text) ==
    IF sentence_text /= <<>> THEN "get_phoneme_timestamps_with_text"
    ELSE "get_phoneme_timestamps"

\* _align_audio: the windows, or the alignment's failure
AlignAudio ==
    /\ pc = "align_audio"
    /\ calls' = calls \cup {"align_audio", Aligner(sentence.text)}
    /\ stage_log' = stage_log \o <<"align_audio", Aligner(sentence.text)>>
    /\ \/ /\ user_timestamps' = get_phoneme_timestamps_with_text(sentence.phoneme_sequence)
          /\ pc' = "compute_phoneme_embeddings"
          /\ UNCHANGED <<result, raised, failed_calls>>
       \/ /\ Except(OtherException)
          /\ failed_calls' = failed_calls \cup {"alignment"}
          /\ UNCHANGED user_timestamps
    /\ UNCHANGED <<dev_mode_assessment, nlp_available, llm, mistake_report, sentence, asr_result,
                   reference_source, scoreVars, cosVars, unitVars>>

\* vectorizer.compute_phoneme_embeddings: one vector per window.  The model is
\* loaded outside the try block; a failed inference gives the zeros matrix,
\* of which every slice is the zero vector.
ComputePhonemeEmbeddings ==
    /\ pc = "compute_phoneme_embeddings"
    /\ Enter("compute_phoneme_embeddings")
    /\ \/ /\ user_embeddings' \in [1..user_timestamps -> AudioVecs]
          /\ pc' = "get_reference_embeddings"
          /\ UNCHANGED <<result, raised, failed_calls>>
       \/ /\ user_embeddings' = [i \in 1..user_timestamps |-> Zero]
          /\ failed_calls' = failed_calls \cup {"user_embeddings"}
          /\ pc' = "get_reference_embeddings" /\ UNCHANGED <<result, raised>>
       \/ /\ Except(OtherException)
          /\ failed_calls' = failed_calls \cup {"user_embeddings"}
          /\ UNCHANGED user_embeddings
    /\ UNCHANGED <<dev_mode_assessment, nlp_available, llm, mistake_report, sentence, asr_result,
                   user_timestamps, reference_source, cosVars, unitVars,
                   spc, reference_embeddings, phonemes, threshold, scores,
                   scores_again, direct_scores>>

\* _get_reference_embeddings: the cached list; else the zero placeholder when
\* there is no reference audio; else the sentence embedding of the reference
\* audio, which is zero when the model failed, written to the cache
GetReferenceEmbeddings ==
    /\ pc = "get_reference_embeddings"
    /\ Enter("get_reference_embeddings")
    /\ IF sentence.cache = "valid"
       THEN /\ reference_embeddings' = sentence.reference_embeddings
            /\ reference_source' = "cached"
            /\ UNCHANGED <<sentence, failed_calls>>
       ELSE LET cleared == IF sentence.cache = "corrupt"
                           THEN [sentence EXCEPT !.cache = "none"]
                           ELSE sentence
            IN  IF ~sentence.has_audio
                THEN /\ reference_embeddings' = <<Zero>>
                     /\ reference_source' = "no_audio_source"
                     /\ sentence' = cleared
                     /\ UNCHANGED failed_calls
                ELSE \E computed \in BOOLEAN :
                        LET embedding == IF computed THEN ReferenceVec ELSE Zero
                        IN  /\ reference_embeddings' = <<embedding>>
                            /\ reference_source' =
                                  IF computed THEN "computed" ELSE "computation_failed"
                            /\ failed_calls' =
                                  IF computed THEN failed_calls
                                  ELSE failed_calls \cup {"reference_embeddings"}
                            /\ sentence' = [cleared EXCEPT
                                              !.cache = "valid",
                                              !.reference_embeddings = <<embedding>>]
    /\ pc' = "calculate_scores"
    /\ UNCHANGED <<dev_mode_assessment, nlp_available, llm, mistake_report, asr_result,
                   user_timestamps, result, raised, cosVars, unitVars,
                   spc, user_embeddings, phonemes, threshold, scores,
                   scores_again, direct_scores>>

\* isinstance(phoneme_scores, dict) and phoneme_scores.get('status') == 'unscorable'
NeverUnscorable(phoneme_scores) == FALSE
IsUnscorable(phoneme_scores) == phoneme_scores.status = "unscorable"

\* Step 7 and the handling of an unscorable result
CalculateScoresStep ==
    /\ pc = "calculate_scores"
    /\ Enter("calculate_scores")
    /\ phonemes' = sentence.phoneme_sequence
    /\ \E variance \in RandomDraws(user_embeddings, reference_embeddings,
                                   sentence.phoneme_sequence) :
          scores' = calculate_scores(user_embeddings, reference_embeddings,
                                     sentence.phoneme_sequence, threshold, variance)
    /\ IF IsUnscorable(scores')
       THEN Return(FailureResult("unscorable", scores'.reason, scores'.message,
                                 scores'.suggestion))
       ELSE pc' = "detect_mistakes" /\ UNCHANGED <<result, raised>>
    /\ UNCHANGED <<dev_mode_assessment, nlp_available, failed_calls, llm, mistake_report, sentence, asr_result,
                   user_timestamps, reference_source, cosVars, unitVars,
                   spc, user_embeddings, reference_embeddings, threshold,
                   scores_again, direct_scores>>

\* mistake_detector.py: MistakeDetector(weak_threshold=0.7)
MistakeWeakThreshold == Frac(7, 10)

Severity(score) ==
    IF score < Frac(4, 10) THEN "major"
    ELSE IF score < Frac(6, 10) THEN "moderate"
    ELSE "minor"

Mistake(idx, ps) ==
    [type |-> "weak_phoneme", position |-> idx, expected |-> ps.phoneme,
     score |-> ps.score, severity |-> Severity(ps.score)]

\* _detect_phoneme_mistakes: the entries flagged is_weak whose reported score
\* is below the detector's threshold, in order; positions count from 0
RECURSIVE PhonemeMistakesUpTo(_, _)
PhonemeMistakesUpTo(phoneme_scores, n) ==
    IF n = 0 THEN <<>>
    ELSE LET ps == phoneme_scores[n]
             before == PhonemeMistakesUpTo(phoneme_scores, n - 1)
         IN  IF ps.is_weak /\ ps.score < MistakeWeakThreshold
             THEN Append(before, Mistake(n - 1, ps))
             ELSE before

detect_phoneme_mistakes(phoneme_scores) ==
    PhonemeMistakesUpTo(phoneme_scores, Len(phoneme_scores))

\* What a call of the text-generation service comes to.  With
\* response_format="json" LLMService.generate hands back the parsed reply:
\* "json_object" and "json_array" are replies that parse to a dict or a list,
\* "json_string" one that parses to a string holding a JSON array of tips,
\* "not_json" one that does not parse (handed back as {"raw_text": ...});
\* "providers_failed" is success = False, "raises" an exception out of the
\* service, "unavailable" a service module that cannot be imported.
LlmOutcomes ==
    {"json_object", "json_array", "json_string", "not_json",
     "providers_failed", "raises", "unavailable"}
\* Tips are asked for as a JSON array, feedback as a JSON object
TipsFailures == LlmOutcomes \ {"json_array", "json_string"}
FeedbackFailures == LlmOutcomes \ {"json_object"}

\* _generate_ai_tips: json.loads(result['content']) takes a string only, so
\* a reply already parsed to a list or dict raises TypeError and the
\* fallback tips are used
generate_ai_tips(weak_phonemes, outcome) ==
    [i \in 1..Len(weak_phonemes) |->
        IF outcome = "json_string" THEN "ai_tip" ELSE "fallback_tip"]

\* detect_mistakes, the part on phonemes: the mistakes and their tips
detect_mistakes(phoneme_scores, outcome) ==
    LET phoneme_mistakes == detect_phoneme_mistakes(phoneme_scores)
    IN  [phoneme_mistakes |-> phoneme_mistakes,
         tips |-> generate_ai_tips(phoneme_mistakes, outcome)]

\* Step 8: mistake_detector.detect_mistakes reads the scores; the service is
\* asked for tips when there is a weak phoneme, and its failures are caught
DetectMistakes ==
    /\ pc = "detect_mistakes"
    /\ Enter("detect_mistakes")
    /\ IF detect_phoneme_mistakes(scores.entries) = <<>>
       THEN /\ mistake_report' = detect_mistakes(scores.entries, "not_called")
            /\ UNCHANGED llm
       ELSE \E outcome \in LlmOutcomes :
               /\ mistake_report' = detect_mistakes(scores.entries, outcome)
               /\ llm' = [llm EXCEPT !.tips = outcome]
    /\ pc' = "generate_feedback"
    /\ UNCHANGED <<result, raised>>
    /\ UNCHANGED <<dev_mode_assessment, nlp_available, failed_calls, sentence, asr_result,
                   user_timestamps, reference_source, scoreVars, cosVars, unitVars>>

\* Step 9: weak_phonemes
RECURSIVE WeakPhonemesUpTo(_, _)
WeakPhonemesUpTo(phoneme_scores, n) ==
    IF n = 0 THEN <<>>
    ELSE IF phoneme_scores[n].is_weak
    THEN Append(WeakPhonemesUpTo(phoneme_scores, n - 1), phoneme_scores[n].phoneme)
    ELSE WeakPhonemesUpTo(phoneme_scores, n - 1)

weak_phonemes_of(phoneme_scores) ==
    WeakPhonemesUpTo(phoneme_scores, Len(phoneme_scores))

\* _calculate_overall_score: the mean of the reported scores, as the pair
\* of their sum (score units) and their number
RECURSIVE ScoreSum(_, _)
ScoreSum(phoneme_scores, n) ==
    IF n = 0 THEN 0 ELSE ScoreSum(phoneme_scores, n - 1) + phoneme_scores[n].score

calculate_overall_score(phoneme_scores) ==
    [total |-> ScoreSum(phoneme_scores, Len(phoneme_scores)),
     count |-> Len(phoneme_scores)]

\* round(overall_score, 2) in hundredths.  A mean halfway between two
\* hundredths goes the way its float happens to lie: either neighbour.
Round2(overall) ==
    IF overall.count = 0 THEN {0}
    ELSE LET den == overall.count * Scale
             n == (100 * overall.total) \div den
             rem == (100 * overall.total) % den
         IN  IF 2 * rem < den THEN {n}
             ELSE IF 2 * rem > den THEN {n + 1}
             ELSE {n, n + 1}

\* overall_score >= p / 100
OverallAtLeast(overall, p) ==
    overall.count > 0 /\ 100 * overall.total >= p * overall.count * Scale

\* generate_fallback_feedback: a summary chosen by the overall score
generate_fallback_feedback(overall) ==
    IF OverallAtLeast(overall, 85) THEN "fallback_excellent"
    ELSE IF OverallAtLeast(overall, 70) THEN "fallback_good"
    ELSE IF OverallAtLeast(overall, 50) THEN "fallback_fair"
    ELSE "fallback_challenging"

\* generate_pronunciation_feedback: the validated reply, or the fallback
GeneratedWhateverReplied(overall, outcome) == "generated"
generate_pronunciation_feedback(overall, outcome) ==
    CASE outcome = "json_object" -> "generated"
      [] outcome = "not_json" -> "assessment_complete"
      [] OTHER -> generate_fallback_feedback(overall)

\* AssessmentService._generate_feedback: fixed text when the generator
\* cannot be imported or raises
generate_feedback(overall, outcome) ==
    IF outcome = "unavailable" THEN "feedback_unavailable"
    ELSE generate_pronunciation_feedback(overall, outcome)

StaticSummaries ==
    {"feedback_unavailable", "assessment_complete", "fallback_excellent",
     "fallback_good", "fallback_fair", "fallback_challenging"}

\* Steps 9 to 11 and the success dict
GenerateFeedback ==
    /\ pc = "generate_feedback"
    /\ Enter("generate_feedback")
    /\ \E outcome \in LlmOutcomes :
          LET overall == calculate_overall_score(scores.entries)
          IN  /\ llm' = [llm EXCEPT !.feedback = outcome]
              /\ \E rounded \in Round2(overall) :
                    Return(SuccessResult(scores.entries,
                                         weak_phonemes_of(scores.entries), rounded,
                                         mistake_report,
                                         generate_feedback(overall, outcome)))
    /\ UNCHANGED <<dev_mode_assessment, nlp_available, failed_calls, sentence, asr_result,
                   user_timestamps, reference_source, mistake_report,
                   scoreVars, cosVars, unitVars>>

Next ==
    \/ ProcessAttempt
    \/ CleanAudio
    \/ ValidateSpeech
    \/ Gatekeeper
    \/ AlignAudio
    \/ ComputePhonemeEmbeddings
    \/ GetReferenceEmbeddings
    \/ CalculateScoresStep
    \/ DetectMistakes
    \/ GenerateFeedback

Spec == Init /\ [][Next]_vars

\* The stages after the gatekeeper
LaterStages ==
    {"align_audio", "compute_phoneme_embeddings", "get_reference_embeddings",
     "calculate_scores", "detect_mistakes", "generate_feedback"}

\* C1: once validate_speech has answered can_proceed = false (status mismatch
\* or error), the attempt ends at the gate with success = false and error
\* 'content_mismatch', and no stage after the gatekeeper is ever invoked.
C1_RejectedEndsAtGate ==
    (asr_result.status /= "none" /\ ~asr_result.can_proceed) =>
        /\ calls \cap LaterStages = {}
        /\ pc \in {"gate", "done"}
        /\ pc = "done" =>
              /\ result.returned /\ ~result.success
              /\ result.error = "content_mismatch" /\ raised = "none"

\* C1 witness: an attempt whose audio could not be transcribed was rejected
C1_Witness ==
    /\ pc = "done" /\ asr_result.status = "error"
    /\ result.error = "content_mismatch" /\ calls \cap LaterStages = {}

\* C2: whatever a stage raises, process_attempt ends by returning one result
\* dict; no exception leaves it.
C2_NoExceptionPropagates ==
    pc = "done" => (raised = "none" /\ result.returned)

NoReference == sentence.cache = "none" /\ ~sentence.has_audio

\* C3: for a sentence with neither cached reference embeddings nor reference
\* audio, no embedding is extracted from the user's audio, an attempt that
\* comes to the reference ends with the 'no reference audio' condition, and
\* no result holds phoneme scores without the dev_mode label.
C3_NoReferenceAudioSignalled ==
    NoReference =>
        /\ "compute_phoneme_embeddings" \notin calls
        /\ (pc = "done" /\ "get_reference_embeddings" \in calls) =>
              result.summary = "reference_audio_not_available"
        /\ (pc = "done" /\ result.returned /\ Len(result.phoneme_scores) > 0) =>
              result.dev_mode

\* C4: a success result without dev_mode = true has phoneme scores that come
\* from comparing the user's embeddings with the embeddings of real reference
\* audio (cached, or computed in this attempt).
C4_UntaggedSuccessIsReal ==
    (pc = "done" /\ result.returned /\ result.success /\ ~result.dev_mode) =>
        reference_source \in {"cached", "computed"}

\* The attempt's transcription failed or came back empty, and the pipeline
\* has called validate_speech
NoTranscript ==
    /\ "validate_speech" \in calls
    /\ asr_decoded.failed \/ Strip(Lower(asr_decoded.text)) = <<>>

ErrorStatus(asr) ==
    /\ asr.status = "error" /\ ~asr.can_proceed
    /\ asr.similarity = 0 /\ asr.word_diff = <<>>

Assessed == pc = "done" /\ "generate_feedback" \in calls

\* phoneme, score and is_weak of every entry
Reported(phoneme_scores) ==
    [i \in 1..Len(phoneme_scores) |->
        <<phoneme_scores[i].phoneme, phoneme_scores[i].score, phoneme_scores[i].is_weak>>]

\* C19: when the text-generation service fails, is unavailable or replies
\* with malformed output, in tip generation or in feedback generation, the
\* attempt still returns success = true with exactly the phoneme scores, the
\* weak-phoneme list and the overall score that follow from the scoring
\* stage, with the fallback tips and a static feedback text.
C19_FallbackOnLlmFailure ==
    (Assessed /\ (llm.tips \in TipsFailures \/ llm.feedback \in FeedbackFailures)) =>
        /\ result.returned /\ result.success /\ raised = "none"
        /\ result.phoneme_scores = scores.entries
        /\ result.weak_phonemes = weak_phonemes_of(scores.entries)
        /\ result.overall_score \in Round2(calculate_overall_score(scores.entries))
        /\ llm.feedback \in FeedbackFailures => result.summary \in StaticSummaries
        /\ llm.tips \in TipsFailures =>
              \A i \in 1..Len(result.mistakes.tips) :
                  result.mistakes.tips[i] = "fallback_tip"

\* C19 witness: both calls of the service failed on an attempt with a weak
\* phoneme, and the attempt succeeded with fallback tips and static text
C19_Witness ==
    /\ Assessed /\ result.success
    /\ llm.tips = "raises" /\ llm.feedback = "providers_failed"
    /\ Len(result.mistakes.tips) > 0
    /\ result.summary \in StaticSummaries

\* A step of mistake detection or feedback generation leaves the scores alone
\* and, when it returns, returns them
ScoresKept ==
    pc \in {"detect_mistakes", "generate_feedback"} =>
        /\ scores' = scores
        /\ pc' = "done" =>
              /\ result'.success
              /\ Reported(result'.phoneme_scores) = Reported(scores.entries)

\* C20: mistake detection and feedback generation only read the score list:
\* they leave it as the scoring stage produced it, and the phoneme, score
\* and is_weak of every entry of the result are those of the scoring stage,
\* whatever the text-generation service replies.
C20_ScoresOnlyRead == [][ScoresKept]_vars

\* C20 witness: the service replied to both calls, on an attempt with a weak
\* phoneme, and the result carries the scores
C20_Witness ==
    /\ Assessed /\ result.success
    /\ llm.tips = "json_string" /\ llm.feedback = "json_object"
    /\ Len(result.phoneme_scores) > 0
    /\ Reported(result.phoneme_scores) = Reported(scores.entries)

\* How often a stage was entered
Entries(stage) == Cardinality({i \in 1..Len(stage_log) : stage_log[i] = stage})

ReasonCodes ==
    {"embedding_count_mismatch", "embedding_quality_poor", "nan_embeddings",
     "all_scores_zero"}

\* C23: when the scoring stage yields an unscorable result, the attempt ends
\* with success = false, error 'unscorable', the scorer's reason code and a
\* non-empty message and suggestion; mistake detection and feedback
\* generation are not invoked, no scores are returned, and no stage is run a
\* second time.
C23_UnscorableEndsAttempt ==
    scores.status = "unscorable" =>
        /\ pc = "done" /\ raised = "none"
        /\ result.returned /\ ~result.success /\ result.error = "unscorable"
        /\ result.reason = scores.reason /\ result.reason \in ReasonCodes
        /\ result.message /= "" /\ result.suggestion /= ""
        /\ calls \cap {"detect_mistakes", "generate_feedback"} = {}
        /\ llm = NoLlmCall /\ mistake_report = NoReport
        /\ result.phoneme_scores = <<>>
        /\ \A stage \in calls : Entries(stage) = 1

\* C23 witness: an attempt whose user embeddings were all zero ended as
\* unscorable after the scoring stage
C23_Witness ==
    /\ scores.status = "unscorable" /\ scores.reason = "embedding_quality_poor"
    /\ pc = "done" /\ result.error = "unscorable"
    /\ stage_log[Len(stage_log)] = "calculate_scores"

\* C24: when a model-inference call of a stage (transcription, alignment,
\* user-embedding extraction, reference-embedding computation) has failed,
\* the attempt ends with a failure result (success = false), no stage is run
\* a second time, and the attempt never ends in a success result computed
\* from placeholder values.
C24_InferenceFailureEndsAttempt ==
    failed_calls /= {} =>
        /\ \A stage \in calls : Entries(stage) = 1
        /\ pc = "done" => (result.returned /\ ~result.success)

\* The attempt passed the gatekeeper, every model call of its stages
\* succeeded, the sentence has text and one cached reference embedding per
\* phoneme, and the scores are not unscorable
HappyPath ==
    /\ pc = "done"
    /\ sentence.text /= <<>> /\ asr_result.can_proceed
    /\ failed_calls = {}
    /\ reference_source = "cached"
    /\ Len(reference_embeddings) = Len(sentence.phoneme_sequence)
    /\ ~IsUnscorable(scores)

StagesInOrder ==
    <<"clean_audio", "validate_speech", "align_audio",
      "get_phoneme_timestamps_with_text", "compute_phoneme_embeddings",
      "get_reference_embeddings", "calculate_scores", "detect_mistakes",
      "generate_feedback">>

\* C25: an attempt on a sentence with text that passes the gatekeeper, whose
\* model calls all succeed, with cached per-phoneme reference embeddings and
\* scores that are not unscorable, runs alignment (by word boundaries),
\* embedding extraction, scoring and mistake detection in that order, each
\* once, and returns success = true with one phoneme score per expected
\* phoneme.
C25_HappyPathRunsEveryStage ==
    HappyPath =>
        /\ stage_log = StagesInOrder
        /\ raised = "none" /\ result.returned /\ result.success /\ ~result.dev_mode
        /\ Len(result.phoneme_scores) = Len(sentence.phoneme_sequence)
        /\ \A i \in 1..Len(result.phoneme_scores) :
              result.phoneme_scores[i].phoneme = sentence.phoneme_sequence[i]

\* C25 witness: an attempt with a partial transcript match went through every
\* stage and got a score for each of its two phonemes
C25_Witness ==
    /\ HappyPath /\ asr_result.status = "partial"
    /\ stage_log = StagesInOrder
    /\ result.success /\ Len(result.phoneme_scores) = MaxSentencePhonemes

\* C26: the reference-embedding cache of the sentence is only written with
\* embeddings of a computation that succeeded: when the computation failed,
\* nothing is stored, and the cache never holds the zero placeholder.
C26_CacheHoldsComputedOnly ==
    /\ "reference_embeddings" \in failed_calls => sentence.cache /= "valid"
    /\ sentence.cache = "valid" =>
          \A i \in 1..Len(sentence.reference_embeddings) :
              ~IsZeroVector(sentence.reference_embeddings[i])

---------------------------------------------------------------------------
(* mistake_detector.py: detect_mistakes, called on the score list of the   *)
(* scoring stage                                                           *)

\* The values WEAK_PHONEME_THRESHOLD is configured to
ConfiguredThresholds == WeakThresholds \cup {Frac(6, 10)}

InitDetect ==
    /\ spc = "args"
    /\ user_embeddings \in SeqsUpTo(UserVecs, 1, MaxPhonemes)
    /\ reference_embeddings \in SeqsUpTo(RefVecs, 1, MaxPhonemes)
    /\ phonemes \in {PhonemeSequence(n) : n \in 1..MaxPhonemes}
    /\ threshold \in ConfiguredThresholds
    /\ scores = NotScored /\ scores_again = NotScored /\ direct_scores = NotScored
    /\ CosIdle /\ PipeIdle /\ UnitIdle

\* detect_mistakes(asr_result, phoneme_scores, expected_text) with an ASR
\* result without word differences
DetectMistakesCall ==
    /\ spc = "scored" /\ scores.status = "scores"
    /\ \E outcome \in LlmOutcomes :
          /\ mistake_report' = detect_mistakes(scores.entries, outcome)
          /\ llm' = [llm EXCEPT !.tips = outcome]
    /\ spc' = "detected"
    /\ UNCHANGED <<user_embeddings, reference_embeddings, phonemes, threshold,
                   scores, scores_again, direct_scores, cosVars, unitVars,
                   pc, dev_mode_assessment, nlp_available, failed_calls, sentence, asr_result,
                   user_timestamps, reference_source, calls, stage_log, result, raised>>

NextDetect == CalculateScores \/ DetectMistakesCall

SpecDetect == InitDetect /\ [][NextDetect]_vars

\* The 'weak_phoneme' mistakes reported for the entry at index idx
MistakesAt(report, idx) ==
    {k \in 1..Len(report.phoneme_mistakes) :
        /\ report.phoneme_mistakes[k].type = "weak_phoneme"
        /\ report.phoneme_mistakes[k].position = idx}

TierOf(score) ==
    IF 10 * score < 4 * Scale THEN "major"
    ELSE IF 10 * score < 6 * Scale THEN "moderate"
    ELSE "minor"

\* C21: detect_mistakes emits exactly one 'weak_phoneme' mistake for each
\* entry whose score is below the detector's weak threshold and none for any
\* other entry; its severity is 'major' for a score below 0.4, 'moderate'
\* from 0.4 to below 0.6 and 'minor' otherwise.
C21_MistakePerLowScore ==
    spc = "detected" =>
        \A i \in 1..Len(scores.entries) :
            LET found == MistakesAt(mistake_report, i - 1)
            IN  IF scores.entries[i].score < MistakeWeakThreshold
                THEN /\ Cardinality(found) = 1
                     /\ \A k \in found :
                           mistake_report.phoneme_mistakes[k].severity
                               = TierOf(scores.entries[i].score)
                ELSE found = {}

\* identify_weak_phonemes / PhonemeError.is_weak: the reported score is below
\* the configured threshold
ScoreIsWeak(ps, configured) == ps.score < configured

\* C28: for every entry of a score list the four classifications of 'weak'
\* agree: the entry's is_weak flag, its phoneme being listed in
\* weak_phonemes, its reported score being below the configured threshold,
\* and a 'weak_phoneme' mistake being reported for it.
C28_WeakClassificationsAgree ==
    spc = "detected" =>
        \A i \in 1..Len(scores.entries) :
            LET ps == scores.entries[i]
                listed == \E k \in 1..Len(weak_phonemes_of(scores.entries)) :
                              weak_phonemes_of(scores.entries)[k] = ps.phoneme
                reported == MistakesAt(mistake_report, i - 1) /= {}
            IN  /\ ps.is_weak <=> listed
                /\ ps.is_weak <=> ScoreIsWeak(ps, threshold)
                /\ ps.is_weak <=> reported

---------------------------------------------------------------------------
(* aligner.py: get_phoneme_timestamps, called on its own                    *)
(* Times are in thousandths of a second.                                    *)

\* time_offset = model.config.inputs_to_logits_ratio / sample_rate: 320
\* samples at 16 kHz, the width of one embedding frame
TimeOffset == 20

\* Most frames of an aligned recording
MaxAlignFrames == 4

\* processor.decode([char_id]): the CTC blank decodes to "", the word
\* delimiter to "|", a letter to itself
DecodedChars == {"", "|", "A", "B"}

NotSpoken == {"", "[PAD]", "|"}

CharTimestamp(char, start, end) == [char |-> char, start |-> start, end |-> end]

\* The loop of extract_character_timestamps from frame i (counted from 0):
\* a segment ends where the decoded character changes
RECURSIVE ExtractFrom(_, _, _, _, _, _)
ExtractFrom(pred_ids, time_offset, i, current_char, start_time, results) ==
    IF i = Len(pred_ids)
    THEN IF current_char \notin NotSpoken
         THEN Append(results,
                     CharTimestamp(current_char, start_time, Len(pred_ids) * time_offset))
         ELSE results
    ELSE LET char == pred_ids[i + 1]
             end_time == i * time_offset
         IN  IF char /= current_char
             THEN ExtractFrom(pred_ids, time_offset, i + 1, char, end_time,
                              IF current_char \notin NotSpoken
                              THEN Append(results,
                                          CharTimestamp(current_char, start_time, end_time))
                              ELSE results)
             ELSE ExtractFrom(pred_ids, time_offset, i + 1, current_char, start_time,
                              results)

extract_character_timestamps(pred_ids, time_offset) ==
    ExtractFrom(pred_ids, time_offset, 0, "", 0, <<>>)

\* round(p / q, 3) of a time p / q in thousandths, q > 0: the nearest
\* thousandth, the even one when p / q lies halfway.  i * total / n lies
\* halfway only for n a multiple of 16, total being a multiple of TimeOffset.
RoundTime(p, q) ==
    LET n == p \div q
        rem == p % q
    IN  IF 2 * rem > q \/ (2 * rem = q /\ n % 2 = 1) THEN n + 1 ELSE n

map_to_phonemes(char_timestamps, expected_phonemes) ==
    IF char_timestamps = <<>> \/ expected_phonemes = <<>> THEN <<>>
    ELSE LET total_duration == char_timestamps[Len(char_timestamps)].end
             n == Len(expected_phonemes)
         IN  [i \in 1..n |->
                 [phoneme |-> expected_phonemes[i],
                  start |-> RoundTime((i - 1) * total_duration, n),
                  end |-> RoundTime(i * total_duration, n),
                  index |-> i - 1]]

InitAlign ==
    /\ alpc = "args"
    /\ al_pred_ids \in SeqsUpTo(DecodedChars, 1, MaxAlignFrames)
    /\ al_expected \in {PhonemeSequence(n) : n \in 0..MaxPhonemes}
    /\ al_result = <<>>
    /\ CosIdle /\ ScoreIdle /\ PipeIdle /\ SliceIdle /\ AsrIdle /\ LoadIdle
    /\ CacheIdle /\ SessIdle

exceptAlign == <<cosVars, scoreVars, pipeVars, sliceVars, asrVars, loadVars,
                 cacheVars, sessVars>>

\* get_phoneme_timestamps: the windows, or what loading or the model raised
GetPhonemeTimestamps ==
    /\ alpc = "args"
    /\ \/ /\ al_result' = map_to_phonemes(
                              extract_character_timestamps(al_pred_ids, TimeOffset),
                              al_expected)
          /\ alpc' = "returned"
       \/ alpc' = "raised" /\ UNCHANGED al_result
    /\ UNCHANGED <<al_pred_ids, al_expected, exceptAlign>>

NextAlign == GetPhonemeTimestamps

SpecAlign == InitAlign /\ [][NextAlign]_vars

\* The end of the last character the model heard: the detected speech
SpeechEnd ==
    LET chars == extract_character_timestamps(al_pred_ids, TimeOffset)
    IN  IF chars = <<>> THEN 0 ELSE chars[Len(chars)].end

\* start <= end in each window, and no window starts before the one before
\* it ends
Monotonic(windows) ==
    /\ \A i \in 1..Len(windows) : windows[i].start <= windows[i].end
    /\ \A i \in 2..Len(windows) : windows[i].start >= windows[i - 1].end

\* C22: the alignment result for N expected phonemes has exactly N windows
\* in the order of the expected phonemes, with start <= end in each, each
\* starting no earlier than the one before it ends, together covering the
\* detected speech, and each at least one embedding frame wide.
C22_OneWindowPerPhoneme ==
    alpc = "returned" =>
        /\ Len(al_result) = Len(al_expected)
        /\ \A i \in 1..Len(al_result) :
              /\ al_result[i].phoneme = al_expected[i]
              /\ al_result[i].end - al_result[i].start >= TimeOffset
        /\ Monotonic(al_result)
        /\ al_result /= <<>> =>
              /\ al_result[1].start = 0
              /\ al_result[Len(al_result)].end = SpeechEnd

---------------------------------------------------------------------------
(* vectorizer.py: compute_phoneme_embeddings, called on its own            *)
(* Times are in hundredths of a second.                                    *)

\* WAV2VEC2_STRIDE_SECONDS = 0.02
Stride == 2

\* The columns of the frame matrix, and the length of a pooled vector
EmbeddingDim == 768

\* Most windows of a timestamp list, and most frames of an utterance
MaxWindows == 2
MaxFrames == 3

\* Starts and ends of windows: before the audio, inside it, far beyond it
Times == {0 - 4, 0, 2, 3, 20}

Windows == {[start |-> a, end |-> b] : a \in Times, b \in Times}

\* int(x / y) for y > 0: Python's int() truncates toward zero
TruncDiv(x, y) == IF x >= 0 THEN x \div y ELSE 0 - ((0 - x) \div y)

\* The number of rows of full_embeddings[lo:hi, :] for lo, hi >= 0
SliceRows(frames, lo, hi) == Max2(0, Min2(hi, frames) - Min2(lo, frames))

\* The frame range [lo, hi) one window is pooled over
FrameRangeNotWidened(frames, ts) ==
    [lo |-> Max2(0, TruncDiv(ts.start, Stride)),
     hi |-> Min2(frames, TruncDiv(ts.end, Stride))]
FrameRange(frames, ts) ==
    LET start_frame == Max2(0, TruncDiv(ts.start, Stride))
        end_frame == Min2(frames, TruncDiv(ts.end, Stride))
    IN  IF end_frame <= start_frame
        THEN IF start_frame + 1 > frames
             THEN [lo |-> Max2(0, frames - 1), hi |-> frames]
             ELSE [lo |-> start_frame, hi |-> start_frame + 1]
        ELSE [lo |-> start_frame, hi |-> end_frame]

\* One pooled vector: the mean of the rows lo..hi-1 of the matrix, or
\* np.zeros(768) when the slice has no row.  zero: every component is 0.
Pooled(matrix, ts) ==
    LET r == FrameRange(matrix.frames, ts)
    IN  IF SliceRows(matrix.frames, r.lo, r.hi) > 0
        THEN [kind |-> "mean", lo |-> r.lo, hi |-> r.hi, dim |-> EmbeddingDim,
              zero |-> matrix.zeros]
        ELSE [kind |-> "zeros", lo |-> r.lo, hi |-> r.hi, dim |-> EmbeddingDim,
              zero |-> TRUE]

RECURSIVE SliceUpTo(_, _, _)
SliceUpTo(matrix, tss, n) ==
    IF n = 0 THEN <<>>
    ELSE Append(SliceUpTo(matrix, tss, n - 1), Pooled(matrix, tss[n]))

RECURSIVE SliceSkippingEmpty(_, _)
SliceSkippingEmpty(matrix, tss) ==
    IF tss = <<>> THEN <<>>
    ELSE IF TruncDiv(Head(tss).end, Stride) <= TruncDiv(Head(tss).start, Stride)
    THEN SliceSkippingEmpty(matrix, Tail(tss))
    ELSE <<Pooled(matrix, Head(tss))>> \o SliceSkippingEmpty(matrix, Tail(tss))
slice_embeddings_by_timestamps(matrix, tss) == SliceUpTo(matrix, tss, Len(tss))

InitSlice ==
    /\ epc = "call"
    /\ timestamps \in SeqsUpTo(Windows, 0, MaxWindows)
    /\ num_frames \in 0..MaxFrames
    /\ full_embeddings = NoMatrix /\ model_runs = 0 /\ phoneme_embeddings = <<>>
    /\ CosIdle /\ ScoreIdle /\ PipeIdle /\ AsrIdle /\ LoadIdle /\ CacheIdle /\ AlignIdle /\ SessIdle

\* compute_contextual_embeddings: get_embedding_model() stands before the try
\* block, so a failed load raises; inside it the model runs once on the whole
\* audio, and any failure there gives np.zeros((1, 768))
ComputeContextualEmbeddings ==
    /\ epc = "call"
    /\ \/ epc' = "raised" /\ UNCHANGED <<full_embeddings, model_runs>>
       \/ /\ model_runs' = model_runs + 1
          /\ \E inferred \in BOOLEAN :
                full_embeddings' = IF inferred
                                   THEN [frames |-> num_frames, zeros |-> FALSE]
                                   ELSE [frames |-> 1, zeros |-> TRUE]
          /\ epc' = "slice"
    /\ UNCHANGED <<timestamps, num_frames, phoneme_embeddings,
                   cosVars, scoreVars, pipeVars, asrVars, loadVars, cacheVars, alignVars, sessVars>>

SliceEmbeddingsByTimestamps ==
    /\ epc = "slice"
    /\ phoneme_embeddings' = slice_embeddings_by_timestamps(full_embeddings, timestamps)
    /\ epc' = "returned"
    /\ UNCHANGED <<timestamps, num_frames, full_embeddings, model_runs,
                   cosVars, scoreVars, pipeVars, asrVars, loadVars, cacheVars, alignVars, sessVars>>

NextSlice == ComputeContextualEmbeddings \/ SliceEmbeddingsByTimestamps

SpecSlice == InitSlice /\ [][NextSlice]_vars

NVectorsInOrder ==
    /\ Len(phoneme_embeddings) = Len(timestamps)
    /\ \A i \in 1..Len(timestamps) :
          /\ phoneme_embeddings[i] = Pooled(full_embeddings, timestamps[i])
          /\ phoneme_embeddings[i].dim = EmbeddingDim
    /\ model_runs = 1

C12_FrameRangeInside ==
    (epc = "returned" /\ full_embeddings.frames >= 1) =>
        \A i \in 1..Len(phoneme_embeddings) :
            /\ phoneme_embeddings[i].kind = "mean"
            /\ 0 <= phoneme_embeddings[i].lo
            /\ phoneme_embeddings[i].lo < phoneme_embeddings[i].hi
            /\ phoneme_embeddings[i].hi <= full_embeddings.frames

\* C12 witness: a zero-width second window widened to one frame
C12_Witness ==
    /\ epc = "returned" /\ full_embeddings.frames = 3 /\ Len(timestamps) = 2
    /\ timestamps[2].start = 2 /\ timestamps[2].end = 2
    /\ phoneme_embeddings[2].lo = 1 /\ phoneme_embeddings[2].hi = 2

---------------------------------------------------------------------------
(* The model loaders _get_asr_model (asr_validator.py), get_alignment_model *)
(* (aligner.py) and get_embedding_model (vectorizer.py), called from        *)
(* several threads.  A thread may be switched out between two statements.  *)

\* Threads making their first call
MaxThreads == 2
Threads == 1..MaxThreads

Loaders == {"asr", "alignment", "embedding"}

\* Python None; an object a thread constructs is named by the thread
None == 0
NoPair == [processor |-> None, model |-> None, eval_mode |-> FALSE]

\* The test that guards the construction
NeedsLoad(loader, globals) ==
    IF loader = "asr"
    THEN globals.model = None
    ELSE globals.processor = None \/ globals.model = None

InitLoad ==
    /\ handles = [l \in Loaders |-> [processor |-> None, model |-> None]]
    /\ threads \in [Threads -> {[loader |-> l, lpc |-> "call", got |-> NoPair] :
                                   l \in Loaders}]
    /\ built = {} /\ evaled = {} /\ reassigned = {}
    /\ CosIdle /\ ScoreIdle /\ PipeIdle /\ SliceIdle /\ AsrIdle /\ CacheIdle /\ AlignIdle /\ SessIdle

exceptLoad == <<cosVars, scoreVars, pipeVars, sliceVars, asrVars, cacheVars, alignVars, sessVars>>

Goto(t, label) == threads' = [threads EXCEPT ![t].lpc = label]

\* if _model is None: (or: if _processor is None or _model is None:)
CheckLoaded(t) ==
    /\ threads[t].lpc = "call"
    /\ IF NeedsLoad(threads[t].loader, handles[threads[t].loader])
       THEN Goto(t, "load_processor")
       ELSE Goto(t, "return")
    /\ UNCHANGED <<handles, built, evaled, reassigned, exceptLoad>>

\* _processor = Wav2Vec2Processor.from_pretrained(...)
LoadProcessor(t) ==
    LET l == threads[t].loader
    IN  /\ threads[t].lpc = "load_processor"
        /\ handles' = [handles EXCEPT ![l].processor = t]
        /\ reassigned' = IF handles[l].processor /= None
                         THEN reassigned \cup {l} ELSE reassigned
        /\ Goto(t, "load_model")
        /\ UNCHANGED <<built, evaled, exceptLoad>>

\* _model = Wav2Vec2ForCTC.from_pretrained(...)
LoadModel(t) ==
    LET l == threads[t].loader
    IN  /\ threads[t].lpc = "load_model"
        /\ handles' = [handles EXCEPT ![l].model = t]
        /\ built' = built \cup {<<l, t>>}
        /\ reassigned' = IF handles[l].model /= None
                         THEN reassigned \cup {l} ELSE reassigned
        /\ Goto(t, "eval")
        /\ UNCHANGED <<evaled, exceptLoad>>

\* _model.eval(): on the object the global names at that moment
EvalModel(t) ==
    LET l == threads[t].loader
    IN  /\ threads[t].lpc = "eval"
        /\ evaled' = evaled \cup {<<l, handles[l].model>>}
        /\ Goto(t, "return")
        /\ UNCHANGED <<handles, built, reassigned, exceptLoad>>

\* return _processor, _model
ReturnPair(t) ==
    LET l == threads[t].loader
    IN  /\ threads[t].lpc = "return"
        /\ threads' = [threads EXCEPT
                          ![t].lpc = "done",
                          ![t].got = [processor |-> handles[l].processor,
                                      model |-> handles[l].model,
                                      eval_mode |-> <<l, handles[l].model>> \in evaled]]
        /\ UNCHANGED <<handles, built, evaled, reassigned, exceptLoad>>

NextLoad ==
    \E t \in Threads :
        \/ CheckLoaded(t) \/ LoadProcessor(t) \/ LoadModel(t)
        \/ EvalModel(t) \/ ReturnPair(t)

SpecLoad == InitLoad /\ [][NextLoad]_vars

\* C17: under any interleaving of concurrent first calls, each shared model
\* handle is constructed at most once, every caller receives the same fully
\* initialised processor/model pair, and the handle is never reassigned.
C17_HandlesBuiltOnce ==
    /\ \A l \in Loaders : Cardinality({t \in Threads : <<l, t>> \in built}) <= 1
    /\ \A t \in Threads :
          threads[t].lpc = "done" =>
              /\ threads[t].got.processor /= None /\ threads[t].got.model /= None
              /\ threads[t].got.eval_mode
              /\ \A u \in Threads :
                    (threads[u].lpc = "done" /\ threads[u].loader = threads[t].loader)
                        => threads[u].got = threads[t].got
    /\ reassigned = {}

---------------------------------------------------------------------------
(* services.py: _get_reference_embeddings, called by several requests for  *)
(* the same sentence.  Each request works on its own instance of the row,  *)
(* read by the view before process_attempt; save() writes the field back.  *)

\* Requests in flight
MaxCallers == 2
Callers == 1..MaxCallers

Valid(list) == [kind |-> "valid", list |-> list]
Corrupt == [kind |-> "corrupt", list |-> <<>>]
EmptyPickle == [kind |-> "empty", list |-> <<>>]

\* if sentence.reference_embeddings: ... if embeddings and len(embeddings) > 0
NeverUsable(cache) == FALSE
Usable(cache) == cache.kind = "valid" /\ Len(cache.list) > 0

NewCaller ==
    [rpc |-> "view", instance |-> NoCache, loaded |-> NoCache,
     db_at_call |-> NoCache, cleared |-> FALSE, computed |-> FALSE,
     wrote |-> FALSE, written |-> NoCache, returned |-> <<>>]

InitCache ==
    /\ db_reference_embeddings \in
          {NoCache, Corrupt, EmptyPickle, Valid(<<ReferenceVec>>),
           Valid(<<ReferenceVec, ReferenceVec>>)}
    /\ db_initial = db_reference_embeddings
    /\ audio_exists \in BOOLEAN
    /\ callers = [c \in Callers |-> NewCaller]
    /\ CosIdle /\ ScoreIdle /\ PipeIdle /\ SliceIdle /\ AsrIdle /\ LoadIdle
    /\ AlignIdle /\ SessIdle

exceptCache == <<cosVars, scoreVars, pipeVars, sliceVars, asrVars, loadVars,
                 alignVars, sessVars>>

\* views.py: sentence = ReferenceSentence.objects.get(id=sentence_id)
LoadSentence(c) ==
    /\ callers[c].rpc = "view"
    /\ callers' = [callers EXCEPT ![c].rpc = "call",
                                  ![c].instance = db_reference_embeddings,
                                  ![c].loaded = db_reference_embeddings]
    /\ UNCHANGED <<db_reference_embeddings, db_initial, audio_exists, exceptCache>>

\* Try loading cached embeddings
TryCached(c) ==
    /\ callers[c].rpc = "call"
    /\ callers' =
          [callers EXCEPT
              ![c] = LET me == [@ EXCEPT !.db_at_call = db_reference_embeddings]
                     IN  IF Usable(me.instance)
                         THEN [me EXCEPT !.rpc = "done", !.returned = me.instance.list]
                         ELSE IF me.instance.kind = "corrupt"
                         THEN [me EXCEPT !.rpc = "clear", !.instance = NoCache]
                         ELSE [me EXCEPT !.rpc = "source"]]
    /\ UNCHANGED <<db_reference_embeddings, db_initial, audio_exists, exceptCache>>

\* Clear invalid cache: sentence.save(update_fields=['reference_embeddings'])
ClearInvalidCache(c) ==
    /\ callers[c].rpc = "clear"
    /\ db_reference_embeddings' = callers[c].instance
    /\ callers' = [callers EXCEPT ![c].rpc = "source", ![c].cleared = TRUE]
    /\ UNCHANGED <<db_initial, audio_exists, exceptCache>>

\* if not audio_source or not os.path.exists(audio_source)
AudioSource(c) ==
    /\ callers[c].rpc = "source"
    /\ callers' = IF audio_exists
                  THEN [callers EXCEPT ![c].rpc = "compute"]
                  ELSE [callers EXCEPT ![c].rpc = "done", ![c].returned = <<Zero>>]
    /\ UNCHANGED <<db_reference_embeddings, db_initial, audio_exists, exceptCache>>

\* embedding = compute_sentence_embedding(audio_source): the zero vector when
\* the computation fails; sentence.reference_embeddings = pickle.dumps([embedding])
ComputeEmbedding(c) ==
    /\ callers[c].rpc = "compute"
    /\ \E embedding \in {ReferenceVec, Zero} :
          callers' = [callers EXCEPT ![c].rpc = "save", ![c].computed = TRUE,
                                     ![c].instance = Valid(<<embedding>>)]
    /\ UNCHANGED <<db_reference_embeddings, db_initial, audio_exists, exceptCache>>

\* sentence.save(update_fields=['reference_embeddings']); return [embedding].
\* A save that raises is caught and answered with the dummy list.
SaveEmbedding(c) ==
    /\ callers[c].rpc = "save"
    /\ \/ /\ db_reference_embeddings' = callers[c].instance
          /\ callers' = [callers EXCEPT ![c].rpc = "done", ![c].wrote = TRUE,
                                        ![c].written = callers[c].instance,
                                        ![c].returned = callers[c].instance.list]
       \/ /\ callers' = [callers EXCEPT ![c].rpc = "done", ![c].returned = <<Zero>>]
          /\ UNCHANGED db_reference_embeddings
    /\ UNCHANGED <<db_initial, audio_exists, exceptCache>>

NextCache ==
    \E c \in Callers :
        \/ LoadSentence(c) \/ TryCached(c) \/ ClearInvalidCache(c)
        \/ AudioSource(c) \/ ComputeEmbedding(c) \/ SaveEmbedding(c)

SpecCache == InitCache /\ [][NextCache]_vars

\* The field holds what it held before the calls, nothing, or one complete
\* list written whole by one call
OneCompleteValue ==
    \/ db_reference_embeddings \in {db_initial, NoCache}
    \/ /\ Usable(db_reference_embeddings)
       /\ \E c \in Callers :
             callers[c].wrote /\ callers[c].written = db_reference_embeddings

CompleteReturns ==
    \A c \in Callers :
        callers[c].rpc = "done" =>
            /\ Len(callers[c].returned) > 0
            /\ \A i \in 1..Len(callers[c].returned) :
                  callers[c].returned[i].kind = "num"

\* The call of c found the usable value `cache`, returned it and left the
\* field alone
KeptValue(c, cache) ==
    /\ ~callers[c].computed /\ ~callers[c].wrote /\ ~callers[c].cleared
    /\ callers[c].rpc = "done" /\ callers[c].returned = cache.list

---------------------------------------------------------------------------
(* apps/practice: the session views and the post_save handler of Attempt   *)
(* Times are minutes; scores are hundredths.                                *)

\* NULL in a nullable column, None in the instance read from it
Null == 0 - 1

\* Most rows of UserSession, of Attempt, and most requests served
MaxSessions == 2
MaxAttempts == 2
MaxRequests == 3

\* The time of day up to which requests arrive
MaxClock == 40

\* The days the clock runs over, after the first
MaxDays == 1

MinutesPerDay == 1440

\* The minutes that pass between two requests
TickSteps == {10, 20}

\* Attempt.score of a saved attempt
AttemptScores == {0, 80}

\* signals.py: timedelta(minutes=30) and timedelta(minutes=15)
SessionAgeLimit == 30
InactivityLimit == 15

\* started_at__date
Date(t) == t \div MinutesPerDay

\* UserSession.objects.create: started_at is auto_now_add
NewSession(now) ==
    [started_at |-> now, ended_at |-> Null, overall_score |-> Null, total_attempts |-> 0]

NewAttempt(sid, now, score) == [session |-> sid, created_at |-> now, score |-> score]

\* session.attempts.all(), as the indices of the rows
AttemptsOf(sid, attempts) == {k \in 1..Len(attempts) : attempts[k].session = sid}

RECURSIVE SumOfScores(_, _)
SumOfScores(rows, attempts) ==
    IF rows = {} THEN 0
    ELSE LET k == CHOOSE k \in rows : TRUE
         IN  attempts[k].score + SumOfScores(rows \ {k}, attempts)

\* round(avg, 2) of sum / n hundredths: to the nearest hundredth, ties to even
RoundAvg(sum, n) ==
    LET q == sum \div n
        r == sum % n
    IN  IF 2 * r < n THEN q
        ELSE IF 2 * r > n THEN q + 1
        ELSE IF q % 2 = 0 THEN q ELSE q + 1

\* UserSession.calculate_overall_score on the instance session of row sid:
\* sets the score and the count and saves, only when the session has attempts
session_calculate_overall_score(session, sid, attempts) ==
    LET rows == AttemptsOf(sid, attempts)
        avg == RoundAvg(SumOfScores(rows, attempts), Cardinality(rows))
    IN  IF rows /= {}
        THEN [saved |-> TRUE,
              session |-> [session EXCEPT
                             !.overall_score = IF avg /= 0 THEN avg ELSE Null,
                             !.total_attempts = Cardinality(rows)]]
        ELSE [saved |-> FALSE, session |-> session]

\* Attempt.objects.filter(session=session).order_by('-created_at').first()
LastAttempt(sid, attempts) ==
    CHOOSE k \in AttemptsOf(sid, attempts) :
        \A j \in AttemptsOf(sid, attempts) : attempts[j].created_at <= attempts[k].created_at

\* auto_end_session_on_attempt, run by the save of a new attempt of the
\* instance session of row sid; attempts holds the new attempt already
auto_end_session_on_attempt(session, sid, attempts, now) ==
    IF session.ended_at /= Null
    THEN [saved |-> FALSE, session |-> session]
    ELSE LET session_age == now - session.started_at
             time_since_last == now - attempts[LastAttempt(sid, attempts)].created_at
         IN  IF AttemptsOf(sid, attempts) /= {}
                /\ session_age > SessionAgeLimit /\ time_since_last > InactivityLimit
             THEN [saved |-> TRUE,
                   session |-> session_calculate_overall_score(
                                   [session EXCEPT !.ended_at = now], sid, attempts).session]
             ELSE [saved |-> FALSE, session |-> session]

\* _get_or_create_session: the sessions that are not ended and started today
ActiveSessions(rows, now) ==
    {sid \in 1..Len(rows) :
        rows[sid].ended_at = Null /\ Date(rows[sid].started_at) = Date(now)}

\* .first() under Meta.ordering = ['-started_at']
FirstActive(rows, now) ==
    {sid \in ActiveSessions(rows, now) :
        \A other \in ActiveSessions(rows, now) : rows[other].started_at <= rows[sid].started_at}

Request(view, rpc, pk, session, response) ==
    [view |-> view, rpc |-> rpc, pk |-> pk, session |-> session, response |-> response]

InitSession ==
    /\ clock = 0 /\ session_rows = <<>> /\ attempt_rows = <<>> /\ requests = <<>>
    /\ CosIdle /\ ScoreIdle /\ PipeIdle
    /\ SliceIdle /\ AsrIdle /\ LoadIdle /\ CacheIdle /\ AlignIdle

exceptSession ==
    <<cosVars, scoreVars, pipeVars, sliceVars, asrVars, loadVars, cacheVars, alignVars>>

\* Time passes
Tick ==
    /\ \E d \in TickSteps :
          /\ (clock + d) % MinutesPerDay <= MaxClock
          /\ clock' = clock + d
    /\ UNCHANGED <<session_rows, attempt_rows, requests, exceptSession>>

Midnight ==
    /\ Date(clock) < MaxDays
    /\ clock' = (Date(clock) + 1) * MinutesPerDay
    /\ UNCHANGED <<session_rows, attempt_rows, requests, exceptSession>>

\* AssessmentView.post up to the call of process_attempt: the active session
\* is fetched, or a new one made
AssessmentGetSession ==
    /\ Len(requests) < MaxRequests
    /\ IF FirstActive(session_rows, clock) /= {}
       THEN /\ \E sid \in FirstActive(session_rows, clock) :
                  requests' = Append(requests,
                      Request("assessment", "process_attempt", sid, session_rows[sid], ""))
            /\ UNCHANGED session_rows
       ELSE /\ Len(session_rows) < MaxSessions
            /\ session_rows' = Append(session_rows, NewSession(clock))
            /\ requests' = Append(requests,
                   Request("assessment", "process_attempt", Len(session_rows) + 1,
                           NewSession(clock), ""))
    /\ UNCHANGED <<clock, attempt_rows, exceptSession>>

\* process_attempt returned a failure: the view answers 500, nothing is saved
AssessmentFails ==
    /\ \E r \in 1..Len(requests) :
          /\ requests[r].rpc = "process_attempt"
          /\ requests' = [requests EXCEPT ![r].rpc = "done",
                                          ![r].response = "Assessment failed."]
    /\ UNCHANGED <<clock, session_rows, attempt_rows, exceptSession>>

\* process_attempt succeeded: _save_attempt creates the attempt for the
\* session fetched before, and the save runs auto_end_session_on_attempt
AssessmentSaveAttempt ==
    /\ Len(attempt_rows) < MaxAttempts
    /\ \E r \in 1..Len(requests), score \in AttemptScores :
          /\ requests[r].rpc = "process_attempt"
          /\ LET sid == requests[r].pk
                 attempts == Append(attempt_rows, NewAttempt(sid, clock, score))
                 handled == auto_end_session_on_attempt(requests[r].session, sid,
                                                        attempts, clock)
             IN  /\ attempt_rows' = attempts
                 /\ session_rows' = IF handled.saved
                                    THEN [session_rows EXCEPT ![sid] = handled.session]
                                    ELSE session_rows
                 /\ requests' = [requests EXCEPT ![r].rpc = "done",
                                                 ![r].session = handled.session,
                                                 ![r].response = "attempt saved"]
    /\ UNCHANGED <<clock, exceptSession>>

\* EndSessionView.post for the session pk
EndSessionPost ==
    /\ Len(requests) < MaxRequests
    /\ \E pk \in 1..MaxSessions :
          IF pk > Len(session_rows)
          THEN /\ requests' = Append(requests,
                      Request("end_session", "done", pk, NewSession(Null),
                              "Session not found."))
               /\ UNCHANGED session_rows
          ELSE IF session_rows[pk].ended_at /= Null
          THEN /\ requests' = Append(requests,
                      Request("end_session", "done", pk, session_rows[pk],
                              "Session already ended."))
               /\ UNCHANGED session_rows
          ELSE LET ended == session_calculate_overall_score(
                                [session_rows[pk] EXCEPT !.ended_at = clock],
                                pk, attempt_rows)
               IN  /\ session_rows' = IF ended.saved
                                      THEN [session_rows EXCEPT ![pk] = ended.session]
                                      ELSE session_rows
                   /\ requests' = Append(requests,
                          Request("end_session", "done", pk, ended.session,
                                  "Session ended successfully."))
    /\ UNCHANGED <<clock, attempt_rows, exceptSession>>

NextSession ==
    \/ Tick
    \/ Midnight
    \/ AssessmentGetSession
    \/ AssessmentFails
    \/ AssessmentSaveAttempt
    \/ EndSessionPost

SpecSession == InitSession /\ [][NextSession]_vars

\* The row of the session the attempt just saved belongs to
SavedAttempt == attempt_rows'[Len(attempt_rows')]

\* A step that saves an attempt ends the session that is due, and leaves an
\* ended session as it is
AutoEndStep ==
    Len(attempt_rows') > Len(attempt_rows) =>
        LET sid == SavedAttempt.session
            row == session_rows[sid]
            due == /\ clock - row.started_at > SessionAgeLimit
                   /\ \A k \in AttemptsOf(sid, attempt_rows) :
                         clock - attempt_rows[k].created_at > InactivityLimit
        IN  /\ row.ended_at /= Null => session_rows'[sid] = row
            /\ (row.ended_at = Null /\ due) =>
                  /\ session_rows'[sid].ended_at = clock
                  /\ session_rows'[sid].total_attempts
                         = Cardinality(AttemptsOf(sid, attempt_rows'))

\* C29: when a new attempt is saved in a session that has not ended, was
\* started more than 30 minutes ago and had no attempt during the 15 minutes
\* before, auto_end_session_on_attempt ends the session: ended_at is set and
\* saved and the overall score is computed; an ended session is left
\* unchanged.
C29_AutoEndOnAttempt == [][AutoEndStep]_vars

\* An answer 'Session ended successfully.' was given for the session sid
AnsweredEnded(sid) ==
    \E r \in 1..Len(requests) :
        /\ requests[r].view = "end_session" /\ requests[r].pk = sid
        /\ requests[r].response = "Session ended successfully."

EndedIsPersisted ==
    \A sid \in 1..Len(session_rows) :
        AnsweredEnded(sid) => session_rows[sid].ended_at /= Null

\* A later end request is rejected, ended_at is not changed again, and no
\* attempt is saved for an ended session
EndedStaysEndedStep ==
    /\ \A sid \in 1..Len(session_rows) :
          AnsweredEnded(sid) =>
              /\ session_rows'[sid].ended_at = session_rows[sid].ended_at
              /\ \A r \in 1..Len(requests') :
                    (r > Len(requests) /\ requests'[r].view = "end_session"
                        /\ requests'[r].pk = sid)
                        => requests'[r].response = "Session already ended."
    /\ Len(attempt_rows') > Len(attempt_rows) =>
          /\ session_rows[SavedAttempt.session].ended_at = Null
          /\ ~AnsweredEnded(SavedAttempt.session)

\* C30: after EndSessionView.post answers 'Session ended successfully.' for a
\* session, with or without attempts, the session is saved with ended_at set,
\* every later end request for it is rejected with 'Session already ended.',
\* ended_at never changes again, and AssessmentView attaches no new attempt
\* to an ended session.
C30_EndedSessionStaysEnded == []EndedIsPersisted /\ [][EndedStaysEndedStep]_vars

===========================================================================
